---- MODULE Spec2Model ----
(***************************************************************************)
(* Transaction engine of the finance management system:                    *)
(* src/src/routes/transaction_route.ts over the Mongoose models            *)
(* src/src/models/transaction.ts and src/src/models/account.ts and the     *)
(* redis side cache.  Every request handler is split at its awaits: one    *)
(* action performs one store/cache call together with the synchronous code *)
(* that follows it up to the next await.                                   *)
(***************************************************************************)
EXTENDS Integers, Sequences, FiniteSets, TLC

\* ---------------------------------------------------------------- bounds
NumProcs == 2          \* request slots that may be in flight
MaxRequests == 3       \* requests received in one behaviour
MaxClock == 1          \* largest reading of Date.now()
MaxMoney == 1          \* largest opening balance
NumInvestors == 2      \* investors registered at the start
MaxAmount == 2         \* largest amount in a request
MaxRows == 2           \* rows of one CSV upload

Procs == 1..NumProcs
AccountNumbers == {1, 2}        \* accounts that exist at start
\* an accountNumber no Account carries
MissingAccount == CHOOSE n \in 1..(Cardinality(AccountNumbers) + 1) : n \notin AccountNumbers
Amounts == 1..MaxAmount
Types == {"credit", "debit"}
\* An idempotencyKey is a tuple: <<k>> is the client string k, and
\* `reverse_${key}_${Date.now()}` is Append(key, now).  <<>> is the absent key.
NoKey == << >>
ClientKeys == {<<1>>, <<2>>}

NoTx == [id |-> 0, idempotencyKey |-> NoKey, amount |-> 0, accountNumber |-> 0,
         type |-> "none", date |-> 0]
NoAcc == [accountNumber |-> 0, money |-> 0]
InvestorIds == 1..NumInvestors
MissingInvestor == CHOOSE i \in 1..(NumInvestors + 1) : i \notin InvestorIds
NoBody == [idempotencyKey |-> NoKey, accountNumber |-> 0, amount |-> 0, type |-> "none"]

VARIABLES
    Transaction,   \* the Transaction collection, in insertion order; _id = position
    Account,       \* the Account collection: accountNumber -> money
    now,           \* the last reading of Date.now()
    pc,            \* per request slot: the await the handler is suspended at
    req,           \* per request slot: the request (route, body)
    acc,           \* per request slot: the Account document held by the handler
    newTransaction,\* per request slot: the Transaction document built by the handler
    res,           \* per request slot: the response sent
    pre,           \* per request slot: the store as it was when the request arrived
    opening,       \* the balances the accounts were opened with
    applied,       \* balance writes performed so far, as <<idempotencyKey, accountNumber, delta>>
    bulk,          \* per request slot: the batch handler's locals
    threw,         \* per request slot: the await whose call rejected, "none" otherwise
    redis,         \* the redis cache: entries account:<text> and transaction:<id>
    Investor,      \* the Investor collection: the _id of every investor
    accountInvestor, \* the investor field of the Account documents: accountNumber -> _id
    nreq           \* requests received so far

vars == <<Transaction, Account, now, pc, req, acc, newTransaction, res, pre,
          opening, applied, threw, bulk, nreq, redis, Investor, accountInvestor>>

\* ---------------------------------------------------------------- helpers
\* a lookup that finds nothing
TransactionFindOneMisses(store, key) == NoTx

\* Transaction.findOne({ idempotencyKey }): the first document carrying the key.
TransactionFindOne(store, key) ==
    IF \E i \in 1..Len(store) : store[i].idempotencyKey = key
    THEN store[CHOOSE i \in 1..Len(store) :
                   /\ store[i].idempotencyKey = key
                   /\ \A j \in 1..(i - 1) : store[j].idempotencyKey # key]
    ELSE NoTx

\* a lookup by id that answers with the oldest document whatever the id
TransactionFindByIdFirst(store, id) ==
    IF store # << >> THEN store[1] ELSE NoTx

\* Transaction.findById(id)
TransactionFindById(store, id) ==
    IF id \in 1..Len(store) THEN store[id] ELSE NoTx

\* Schema validation run by save(): amount and type are required, type is one
\* of the enum, accountNumber must name an existing Account.
SchemaValid(doc, accounts) ==
    /\ doc.type \in {"credit", "debit"}
    /\ doc.amount \in Int
    /\ doc.accountNumber \in DOMAIN accounts

\* a collection without the unique index
UniqueIndexAbsent(store, doc) == TRUE

\* idempotencyKey: { type: String, unique: true } -- the unique index
UniqueIndexAdmits(store, doc) ==
    \A i \in 1..Len(store) : store[i].idempotencyKey # doc.idempotencyKey

\* document.save() of a new Transaction: "ok", or the error it throws
TransactionSaveOutcome(store, accounts, doc) ==
    IF ~SchemaValid(doc, accounts) THEN "ValidationError"
    ELSE IF ~UniqueIndexAdmits(store, doc) THEN "E11000"
    ELSE "ok"

\* the collection after a successful insert; the document gets its _id
Persisted(store, doc) == [doc EXCEPT !.id = Len(store) + 1]

\* an insert that writes over the last document of the collection
TransactionInsertOverwrites(store, doc) ==
    IF store = << >> THEN << [doc EXCEPT !.id = 1] >>
    ELSE [store EXCEPT ![Len(store)] = [doc EXCEPT !.id = Len(store)]]

\* the insert of save(): the document is appended
TransactionInsert(store, doc) == Append(store, Persisted(store, doc))

\* a document that takes twice the amount
NewTransactionDocDoubles(key, amount, accountNumber, type, t) ==
    [id |-> 0, idempotencyKey |-> key, amount |-> 2 * amount,
     accountNumber |-> accountNumber, type |-> type, date |-> t]

\* new Transaction(data): date defaults to Date.now()
NewTransactionDoc(key, amount, accountNumber, type, t) ==
    [id |-> 0, idempotencyKey |-> key, amount |-> amount,
     accountNumber |-> accountNumber, type |-> type, date |-> t]

\* a lookup that makes up the account it does not find
AccountFindOneInvents(accounts, n) ==
    IF n \in DOMAIN accounts THEN [accountNumber |-> n, money |-> accounts[n]]
    ELSE [accountNumber |-> n, money |-> 0]

\* Account.findOne({ accountNumber })
AccountFindOne(accounts, n) ==
    IF n \in DOMAIN accounts THEN [accountNumber |-> n, money |-> accounts[n]] ELSE NoAcc

\* a balance change that adds the amount whatever the type
AdjustedAdds(doc, type, amount) == [doc EXCEPT !.money = @ + amount]

\* acc.money -= amount / acc.money += amount
Adjusted(doc, type, amount) ==
    IF type = "debit" THEN [doc EXCEPT !.money = @ - amount]
    ELSE IF type = "credit" THEN [doc EXCEPT !.money = @ + amount]
    ELSE doc

\* a save that writes the document's money over every account
AccountSaveEvery(accounts, doc) ==
    [n \in DOMAIN accounts |-> doc.money]

\* a save that does not reach the store
AccountSaveDrops(accounts, doc) == accounts

\* acc.save(): writes the document's money over the stored one
AccountSave(accounts, doc) ==
    IF doc.accountNumber \in DOMAIN accounts
    THEN [accounts EXCEPT ![doc.accountNumber] = doc.money]
    ELSE accounts

\* an $inc that is applied to every account
AccountIncEvery(accounts, n, d) ==
    [m \in DOMAIN accounts |-> accounts[m] + d]

\* Account.findOneAndUpdate({ accountNumber }, { $inc: { money: d } })
AccountInc(accounts, n, d) ==
    IF n \in DOMAIN accounts THEN [accounts EXCEPT ![n] = @ + d] ELSE accounts

\* `reverse_${transaction.idempotencyKey}_${Date.now()}`
ReverseKey(key, t) == Append(key, t)

\* ------------------------------------------------------------ the cache
\* An accountNumber as text, the way a query string carries it: <<n, z>> is
\* the decimal numeral of n behind z leading zeros.
Text(n, z) == <<n, z>>
\* Number(text)
ToNumber(text) == text[1]
\* `${n}` of a number: its numeral without leading zeros
Format(n) == Text(n, 0)

\* the empty cache
NoCache == [account |-> [k \in {} |-> NoAcc], transaction |-> [k \in {} |-> NoTx]]

\* redisClient.get(key): the entry, or none when the key is absent
CacheGet(entries, key, none) == IF key \in DOMAIN entries THEN entries[key] ELSE none
\* redisClient.set(key, JSON.stringify(value), { EX: 3600 })
CacheSet(entries, key, value) ==
    [k \in DOMAIN entries \cup {key} |-> IF k = key THEN value ELSE entries[k]]
\* redisClient.del(key)
CacheDel(entries, key) == [k \in DOMAIN entries \ {key} |-> entries[k]]

\* the bulk report: inserted is a count, skipped and failed list <<row index, reason>>
Report(inserted, skipped, failed) ==
    [inserted |-> inserted, skipped |-> skipped, failed |-> failed]
NoReport == Report(0, << >>, << >>)

Response(status, error, tx) ==
    [status |-> status, error |-> error, transaction |-> tx, report |-> NoReport,
     account |-> NoAcc, cached |-> FALSE]
NoRes == Response(0, "", NoTx)

\* the store as request number n finds it
Snapshot(n) ==
    [Transaction |-> Transaction, Account |-> Account, redis |-> redis, seq |-> n]

Idle(p) == pc[p] \in {"idle", "done"}

Body(key, accountNumber, amount, type) ==
    [idempotencyKey |-> key, accountNumber |-> accountNumber, amount |-> amount, type |-> type]

\* request bodies: every key, amount and type on the existing accounts, both
\* types on the missing account, and one body without idempotencyKey
NewBodies ==
    [idempotencyKey : ClientKeys, accountNumber : AccountNumbers, amount : Amounts, type : Types]
    \cup {Body(k, MissingAccount, 1, t) : k \in ClientKeys, t \in Types}
    \cup {Body(NoKey, 1, 1, "credit")}

\* a query parameter that is not sent
NoQuery == << >>
Request(route, body, transactionId, rows) ==
    [route |-> route, body |-> body, transactionId |-> transactionId, rows |-> rows,
     query |-> NoQuery, accountId |-> 0]
NoReq == Request("none", NoBody, 0, << >>)

\* the batch handler's locals (lines 194-197) and its position in results
NoBulk == [i |-> 0, inserted |-> << >>, skipped |-> << >>, failed |-> << >>,
           processedIdempotencyKeys |-> {}]

Send(p, r) == /\ res' = [res EXCEPT ![p] = r]
              /\ pc' = [pc EXCEPT ![p] = "done"]
Goto(p, l) == /\ pc' = [pc EXCEPT ![p] = l]
              /\ UNCHANGED res

\* slots are interchangeable: a request takes the first slot never used, and
\* when all were used the first one whose response was sent
FirstFree(p) ==
    IF \E q \in Procs : pc[q] = "idle"
    THEN pc[p] = "idle" /\ \A q \in Procs : q < p => pc[q] # "idle"
    ELSE pc[p] = "done" /\ \A q \in Procs : q < p => pc[q] # "done"

\* a request arrives at a free slot; the handler starts with fresh locals
Accept(p, r, b, limit) ==
    /\ nreq < limit
    /\ Idle(p)
    /\ FirstFree(p)
    /\ nreq' = nreq + 1
    /\ req' = [req EXCEPT ![p] = r]
    /\ pre' = [pre EXCEPT ![p] = Snapshot(nreq + 1)]
    /\ acc' = [acc EXCEPT ![p] = NoAcc]
    /\ newTransaction' = [newTransaction EXCEPT ![p] = NoTx]
    /\ threw' = [threw EXCEPT ![p] = "none"]
    /\ bulk' = [bulk EXCEPT ![p] = b]

Init ==
    /\ Transaction = << >>
    /\ Account \in [AccountNumbers -> 0..MaxMoney]
    /\ opening = Account
    /\ now = 0
    /\ redis = NoCache
    /\ Investor = InvestorIds
    /\ accountInvestor = [n \in AccountNumbers |-> ((n - 1) % NumInvestors) + 1]
    /\ pc = [p \in Procs |-> "idle"]
    /\ req = [p \in Procs |-> NoReq]
    /\ acc = [p \in Procs |-> NoAcc]
    /\ newTransaction = [p \in Procs |-> NoTx]
    /\ res = [p \in Procs |-> NoRes]
    /\ pre = [p \in Procs |-> Snapshot(0)]
    /\ threw = [p \in Procs |-> "none"]
    /\ bulk = [p \in Procs |-> NoBulk]
    /\ applied = << >>
    /\ nreq = 0

\* Date.now() returns t: no earlier than the last reading
Reading(t) == t \in now..MaxClock /\ now' = t

\* ------------------------------------------------- POST /transaction/new
\* lines 51-67: the request arrives; a missing idempotencyKey is answered 400
NewReceive(p, body, limit) ==
    /\ Accept(p, Request("new", body, 0, << >>), NoBulk, limit)
    /\ IF body.idempotencyKey = NoKey
       THEN Send(p, Response(400, "idempotencyKey is required", NoTx))
       ELSE /\ pc' = [pc EXCEPT ![p] = "new:findOne"]
            /\ res' = [res EXCEPT ![p] = NoRes]
    /\ UNCHANGED <<Transaction, Account, now, opening, Investor, accountInvestor, redis, applied>>

\* a key lookup whose 409 answer also drops the account's cache entry
NewFindOneInvalidates(p) ==
    /\ pc[p] = "new:findOne"
    /\ LET existingTransaction == TransactionFindOne(Transaction, req[p].body.idempotencyKey)
       IN IF existingTransaction # NoTx
          THEN /\ Send(p, Response(409, "Transaction with this idempotencyKey already exists",
                                   existingTransaction))
               /\ redis' = [redis EXCEPT !.account =
                               CacheDel(@, Format(req[p].body.accountNumber))]
          ELSE /\ Goto(p, "new:accFindOne")
               /\ UNCHANGED redis
    /\ UNCHANGED <<Transaction, Account, now, req, acc, newTransaction, pre,
                   opening, Investor, accountInvestor, applied, threw, bulk, nreq>>

\* lines 71-81: Transaction.findOne({ idempotencyKey })
NewFindOne(p) ==
    /\ pc[p] = "new:findOne"
    /\ LET existingTransaction == TransactionFindOne(Transaction, req[p].body.idempotencyKey)
       IN IF existingTransaction # NoTx
          THEN Send(p, Response(409, "Transaction with this idempotencyKey already exists",
                                existingTransaction))
          ELSE Goto(p, "new:accFindOne")
    /\ UNCHANGED <<Transaction, Account, now, req, acc, newTransaction, pre,
                   opening, Investor, accountInvestor, redis, applied, threw, bulk, nreq>>

\* a funds check that is off by one
InsufficientFundsOffByOne(type, money, amount) == type = "debit" /\ money + 1 < amount

\* line 100: transactionData.type === 'debit' && acc.money < transactionData.amount
InsufficientFunds(type, money, amount) == type = "debit" /\ money < amount

\* lines 84-110: Account.findOne, the funds check, new Transaction(transactionData)
NewAccFindOne(p) ==
    /\ pc[p] = "new:accFindOne"
    /\ LET b == req[p].body
           a == AccountFindOne(Account, b.accountNumber)
       IN IF a = NoAcc
          THEN /\ Send(p, Response(404, "Account not found", NoTx))
               /\ UNCHANGED <<acc, newTransaction, now>>
          ELSE IF InsufficientFunds(b.type, a.money, b.amount)
          THEN /\ Send(p, Response(400, "Insufficient funds", NoTx))
               /\ UNCHANGED <<acc, newTransaction, now>>
          ELSE /\ \E t \in now..MaxClock : Reading(t)
               /\ Goto(p, "new:save")
               /\ acc' = [acc EXCEPT ![p] = a]
               /\ newTransaction' = [newTransaction EXCEPT ![p] =
                      NewTransactionDoc(b.idempotencyKey, b.amount, b.accountNumber, b.type, now')]
    /\ UNCHANGED <<Transaction, Account, req, pre, opening, Investor, accountInvestor, redis, applied, threw, bulk, nreq>>

\* lines 116-123 and 149-156: newTransaction.save(), then acc.money is adjusted
NewSave(p) ==
    /\ pc[p] = "new:save"
    /\ IF TransactionSaveOutcome(Transaction, Account, newTransaction[p]) = "ok"
       THEN /\ Transaction' = TransactionInsert(Transaction, newTransaction[p])
            /\ newTransaction' = [newTransaction EXCEPT ![p] = Persisted(Transaction, @)]
            /\ acc' = [acc EXCEPT ![p] = Adjusted(@, req[p].body.type, req[p].body.amount)]
            /\ Goto(p, "new:accSave")
            /\ UNCHANGED threw
       ELSE /\ Send(p, Response(500, "Failed to add transaction", NoTx))
            /\ threw' = [threw EXCEPT ![p] = "new:save"]
            /\ UNCHANGED <<Transaction, newTransaction, acc>>
    /\ UNCHANGED <<Account, now, req, pre, opening, Investor, accountInvestor, redis, applied, bulk, nreq>>

\* line 133: acc.save()
NewAccSave(p) ==
    /\ pc[p] = "new:accSave"
    /\ Account' = AccountSave(Account, acc[p])
    /\ applied' = Append(applied, <<req[p].body.idempotencyKey, acc[p].accountNumber,
                                    acc[p].money - Account[acc[p].accountNumber]>>)
    /\ Goto(p, "new:del")
    /\ UNCHANGED <<Transaction, now, req, acc, newTransaction, pre, opening, Investor, accountInvestor, redis, threw, bulk, nreq>>

\* lines 136-148: redisClient.del(`account:${accountNumber}`), then 201
NewDel(p) ==
    /\ pc[p] = "new:del"
    /\ redis' = [redis EXCEPT !.account = CacheDel(@, Format(req[p].body.accountNumber))]
    /\ Send(p, Response(201, "", newTransaction[p]))
    /\ UNCHANGED <<Transaction, Account, now, req, acc, newTransaction, pre,
                   opening, Investor, accountInvestor, applied, threw, bulk, nreq>>

\* lines 149-156: an awaited store or cache call rejects; the catch answers 500
NewThrows(p) ==
    /\ pc[p] \in {"new:findOne", "new:accFindOne", "new:save", "new:accSave", "new:del"}
    /\ threw' = [threw EXCEPT ![p] = pc[p]]
    /\ Send(p, Response(500, "Failed to add transaction", NoTx))
    /\ UNCHANGED <<Transaction, Account, now, req, acc, newTransaction, pre,
                   opening, Investor, accountInvestor, redis, applied, bulk, nreq>>

\* ---------------------------------------------- PUT /transaction/reverse
\* lines 357-361
RevReceive(p, transactionId, limit) ==
    /\ Accept(p, Request("reverse", NoBody, transactionId, << >>), NoBulk, limit)
    /\ IF transactionId = 0
       THEN Send(p, Response(400, "transactionId is required", NoTx))
       ELSE /\ pc' = [pc EXCEPT ![p] = "rev:findById"]
            /\ res' = [res EXCEPT ![p] = NoRes]
    /\ UNCHANGED <<Transaction, Account, now, opening, Investor, accountInvestor, redis, applied>>

\* a reversal that keeps the original's type
InverseKeepsType(type) == type

\* line 374
Inverse(type) == IF type = "credit" THEN "debit" ELSE "credit"

\* lines 362-375: Transaction.findById, the reversal document
RevFindById(p) ==
    /\ pc[p] = "rev:findById"
    /\ LET transaction == TransactionFindById(Transaction, req[p].transactionId)
       IN IF transaction = NoTx
          THEN /\ Send(p, Response(404, "Transaction not found", NoTx))
               /\ UNCHANGED <<newTransaction, now>>
          ELSE /\ Goto(p, "rev:save")
               \* Date.now() is read for the key (line 367) and again for the date
               /\ \E t \in now..MaxClock :
                    /\ \E u \in t..MaxClock : Reading(u)
                    /\ newTransaction' = [newTransaction EXCEPT ![p] =
                          NewTransactionDoc(ReverseKey(transaction.idempotencyKey, t),
                                            transaction.amount, transaction.accountNumber,
                                            Inverse(transaction.type), now')]
    /\ UNCHANGED <<Transaction, Account, req, acc, pre, opening, Investor, accountInvestor, redis, applied, threw, bulk, nreq>>

\* line 376: reverseTransaction.save()
RevSave(p) ==
    /\ pc[p] = "rev:save"
    /\ IF TransactionSaveOutcome(Transaction, Account, newTransaction[p]) = "ok"
       THEN /\ Transaction' = TransactionInsert(Transaction, newTransaction[p])
            /\ newTransaction' = [newTransaction EXCEPT ![p] = Persisted(Transaction, @)]
            /\ Goto(p, "rev:inc")
            /\ UNCHANGED threw
       ELSE /\ Send(p, Response(500, "Failed to reverse transaction", NoTx))
            /\ threw' = [threw EXCEPT ![p] = "rev:save"]
            /\ UNCHANGED <<Transaction, newTransaction>>
    /\ UNCHANGED <<Account, now, req, acc, pre, opening, Investor, accountInvestor, redis, applied, bulk, nreq>>

\* an $inc of nothing
ReverseDeltaNone(doc) == 0

\* lines 378-382: the $inc by -amount for a debit, +amount for a credit
ReverseDelta(doc) ==
    IF doc.type = "debit" THEN 0 - doc.amount
    ELSE IF doc.type = "credit" THEN doc.amount
    ELSE 0

\* lines 378-382: Account.findOneAndUpdate({ accountNumber }, { $inc })
RevInc(p) ==
    /\ pc[p] = "rev:inc"
    /\ LET r == newTransaction[p]
       IN /\ Account' = AccountInc(Account, r.accountNumber, ReverseDelta(r))
          /\ applied' = IF r.accountNumber \in DOMAIN Account
                         THEN Append(applied, <<r.idempotencyKey, r.accountNumber, ReverseDelta(r)>>)
                         ELSE applied
    /\ Goto(p, "rev:delTx")
    /\ UNCHANGED <<Transaction, now, req, acc, newTransaction, pre, opening, Investor, accountInvestor, redis, threw, bulk, nreq>>

\* line 385: redisClient.del(`transaction:${transactionId}`)
RevDelTx(p) ==
    /\ pc[p] = "rev:delTx"
    /\ redis' = [redis EXCEPT !.transaction = CacheDel(@, req[p].transactionId)]
    /\ Goto(p, "rev:delAcc")
    /\ UNCHANGED <<Transaction, Account, now, req, acc, newTransaction, pre,
                   opening, Investor, accountInvestor, applied, threw, bulk, nreq>>

\* lines 387-389: redisClient.del(`account:${accountNumber}`), then 201
RevDelAcc(p) ==
    /\ pc[p] = "rev:delAcc"
    /\ redis' = [redis EXCEPT !.account = CacheDel(@, Format(newTransaction[p].accountNumber))]
    /\ Send(p, Response(201, "", newTransaction[p]))
    /\ UNCHANGED <<Transaction, Account, now, req, acc, newTransaction, pre,
                   opening, Investor, accountInvestor, applied, threw, bulk, nreq>>

\* lines 390-393: an awaited call rejects; the catch answers 500
RevThrows(p) ==
    /\ pc[p] \in {"rev:findById", "rev:save", "rev:inc", "rev:delTx", "rev:delAcc"}
    /\ threw' = [threw EXCEPT ![p] = pc[p]]
    /\ Send(p, Response(500, "Failed to reverse transaction", NoTx))
    /\ UNCHANGED <<Transaction, Account, now, req, acc, newTransaction, pre,
                   opening, Investor, accountInvestor, redis, applied, bulk, nreq>>

\* --------------------------------------------- POST /transaction/new-bulk
\* A parsed CSV row: the four columns, and the set of columns that are empty.
Row(key, amount, account, type, blank) ==
    [idempotencyKey |-> key, amount |-> amount, account |-> account, type |-> type,
     blank |-> blank]

\* line 200: !row.amount || !row.account || !row.type || !row.idempotencyKey
MissingFields(row) ==
    \/ "amount" \in row.blank
    \/ "account" \in row.blank
    \/ "type" \in row.blank
    \/ "idempotencyKey" \in row.blank

Entry(i, reason) == [row |-> i, reason |-> reason]

\* lines 199-203: the loop head runs on, without an await, over rows that miss
\* a field; it stops at the first complete row or behind the last row
RECURSIVE LoopHead(_, _)
LoopHead(rows, b) ==
    IF b.i > Len(rows) THEN b
    ELSE IF MissingFields(rows[b.i])
    THEN LoopHead(rows, [b EXCEPT !.failed = Append(@, Entry(b.i, "Missing required fields")),
                                  !.i = @ + 1])
    ELSE b

\* lines 258-269: the report
BulkReport(b) == Report(Len(b.inserted), b.skipped, b.failed)

\* a `continue` that stays on the same row
ContinueSameRow(p, b) ==
    /\ bulk' = [bulk EXCEPT ![p] = b]
    /\ Goto(p, "bulk:findOne")

\* `continue` (or the end of the loop body) with the locals b: on to the next
\* row that reaches an await, or to the 201 report
Continue(p, b) ==
    LET n == LoopHead(req[p].rows, [b EXCEPT !.i = @ + 1])
    IN /\ bulk' = [bulk EXCEPT ![p] = n]
       /\ IF n.i > Len(req[p].rows)
          THEN Send(p, [Response(201, "", NoTx) EXCEPT !.report = BulkReport(n)])
          ELSE Goto(p, "bulk:findOne")

\* lines 184-203: the upload arrives and is parsed; the loop starts
BulkReceive(p, rows, limit) ==
    /\ LET n == LoopHead(rows, [NoBulk EXCEPT !.i = 1])
       IN /\ Accept(p, Request("bulk", NoBody, 0, rows), n, limit)
          /\ IF n.i > Len(rows)
             THEN Send(p, [Response(201, "", NoTx) EXCEPT !.report = BulkReport(n)])
             ELSE /\ pc' = [pc EXCEPT ![p] = "bulk:findOne"]
                  /\ res' = [res EXCEPT ![p] = NoRes]
    /\ UNCHANGED <<Transaction, Account, now, opening, Investor, accountInvestor, redis, applied>>

\* lines 205-227: Transaction.findOne({ idempotencyKey }), the in-batch check,
\* new Transaction({...})
BulkFindOne(p) ==
    /\ pc[p] = "bulk:findOne"
    /\ LET b == bulk[p]
           row == req[p].rows[b.i]
           idempotencyKey == row.idempotencyKey
           existingTransaction == TransactionFindOne(Transaction, idempotencyKey)
       IN IF existingTransaction # NoTx
          THEN /\ Continue(p, [b EXCEPT !.skipped =
                      Append(@, Entry(b.i, "IdempotencyKey already exists in database"))])
               /\ UNCHANGED <<newTransaction, now>>
          ELSE IF idempotencyKey \in b.processedIdempotencyKeys
          THEN /\ Continue(p, [b EXCEPT !.skipped =
                      Append(@, Entry(b.i, "Duplicate idempotencyKey in current batch"))])
               /\ UNCHANGED <<newTransaction, now>>
          ELSE /\ \E t \in now..MaxClock : Reading(t)
               /\ bulk' = [bulk EXCEPT ![p].processedIdempotencyKeys = @ \cup {idempotencyKey}]
               /\ newTransaction' = [newTransaction EXCEPT ![p] =
                      NewTransactionDoc(idempotencyKey, row.amount, row.account, row.type, now')]
               /\ Goto(p, "bulk:accFindOne")
    /\ UNCHANGED <<Transaction, Account, req, acc, pre, opening, Investor, accountInvestor, redis, applied, threw, nreq>>

\* lines 229-244: Account.findOne, the funds check, the local balance change
BulkAccFindOne(p) ==
    /\ pc[p] = "bulk:accFindOne"
    /\ LET transaction == newTransaction[p]
           a == AccountFindOne(Account, transaction.accountNumber)
       IN IF a = NoAcc
          THEN /\ Continue(p, [bulk[p] EXCEPT !.failed =
                      Append(@, Entry(bulk[p].i, "Account not found"))])
               /\ UNCHANGED acc
          ELSE IF InsufficientFunds(transaction.type, a.money, transaction.amount)
          THEN /\ Continue(p, [bulk[p] EXCEPT !.failed =
                      Append(@, Entry(bulk[p].i, "Insufficient funds"))])
               /\ UNCHANGED acc
          ELSE /\ acc' = [acc EXCEPT ![p] = Adjusted(a, transaction.type, transaction.amount)]
               /\ Goto(p, "bulk:save")
               /\ UNCHANGED bulk
    /\ UNCHANGED <<Transaction, Account, now, req, newTransaction, pre, opening, Investor, accountInvestor, redis, applied,
                   threw, nreq>>

\* lines 246-247 and 252-256: transaction.save()
BulkSave(p) ==
    /\ pc[p] = "bulk:save"
    /\ IF TransactionSaveOutcome(Transaction, Account, newTransaction[p]) = "ok"
       THEN /\ Transaction' = TransactionInsert(Transaction, newTransaction[p])
            /\ newTransaction' = [newTransaction EXCEPT ![p] = Persisted(Transaction, @)]
            /\ Goto(p, "bulk:accSave")
            /\ UNCHANGED bulk
       ELSE /\ Continue(p, [bulk[p] EXCEPT !.failed =
                   Append(@, Entry(bulk[p].i, "Database save error"))])
            /\ UNCHANGED <<Transaction, newTransaction>>
    /\ UNCHANGED <<Account, now, req, acc, pre, opening, Investor, accountInvestor, redis, applied, threw, nreq>>

\* lines 248-249: acc.save(), inserted.push(transaction)
BulkAccSave(p) ==
    /\ pc[p] = "bulk:accSave"
    /\ Account' = AccountSave(Account, acc[p])
    /\ applied' = Append(applied, <<newTransaction[p].idempotencyKey, acc[p].accountNumber,
                                    acc[p].money - Account[acc[p].accountNumber]>>)
    /\ bulk' = [bulk EXCEPT ![p].inserted = Append(@, newTransaction[p])]
    /\ Goto(p, "bulk:del")
    /\ UNCHANGED <<Transaction, now, req, acc, newTransaction, pre, opening, Investor, accountInvestor, redis, threw, nreq>>

\* line 251: redisClient.del(`account:${transaction.accountNumber}`)
BulkDel(p) ==
    /\ pc[p] = "bulk:del"
    /\ redis' = [redis EXCEPT !.account = CacheDel(@, Format(newTransaction[p].accountNumber))]
    /\ Continue(p, bulk[p])
    /\ UNCHANGED <<Transaction, Account, now, req, acc, newTransaction, pre,
                   opening, Investor, accountInvestor, applied, threw, nreq>>

\* lines 252-256: transaction.save(), acc.save() or redisClient.del rejects; the
\* inner catch records the row as failed and the loop goes on
BulkThrowsInner(p) ==
    /\ pc[p] \in {"bulk:save", "bulk:accSave", "bulk:del"}
    /\ threw' = [threw EXCEPT ![p] = pc[p]]
    /\ Continue(p, [bulk[p] EXCEPT !.failed =
           Append(@, Entry(bulk[p].i, "Database save error"))])
    /\ UNCHANGED <<Transaction, Account, now, req, acc, newTransaction, pre,
                   opening, Investor, accountInvestor, redis, applied, nreq>>

\* lines 270-273: Transaction.findOne or Account.findOne rejects outside the
\* inner try; the outer catch answers 500
BulkThrowsOuter(p) ==
    /\ pc[p] \in {"bulk:findOne", "bulk:accFindOne"}
    /\ threw' = [threw EXCEPT ![p] = pc[p]]
    /\ Send(p, Response(500, "Failed to add transactions", NoTx))
    /\ UNCHANGED <<Transaction, Account, now, req, acc, newTransaction, pre,
                   opening, Investor, accountInvestor, redis, applied, bulk, nreq>>

\* lines 188-190 and 275-277: the parser emits 'error' on the uploaded file;
\* the upload is answered 400 and the loop never starts
BulkInvalid(p, limit) ==
    /\ Accept(p, Request("bulk", NoBody, 0, << >>), NoBulk, limit)
    /\ Send(p, Response(400, "Invalid CSV format", NoTx))
    /\ UNCHANGED <<Transaction, Account, now, opening, Investor, accountInvestor, redis, applied>>

\* ------------------------------------------------------ GET /account/get
\* part_002 lines 83-88: the request arrives; a missing accountNumber is answered 400
AGetReceive(p, accountNumber, limit) ==
    /\ Accept(p, [Request("aget", NoBody, 0, << >>) EXCEPT !.query = accountNumber],
              NoBulk, limit)
    /\ IF accountNumber = NoQuery
       THEN Send(p, Response(400, "accountNumber is required as query parameter", NoTx))
       ELSE /\ pc' = [pc EXCEPT ![p] = "aget:get"]
            /\ res' = [res EXCEPT ![p] = NoRes]
    /\ UNCHANGED <<Transaction, Account, now, opening, Investor, accountInvestor, redis, applied>>

\* part_002 lines 90-95: redisClient.get(`account:${accountNumber}`); a hit is answered
AGetCache(p) ==
    /\ pc[p] = "aget:get"
    /\ LET cached == CacheGet(redis.account, req[p].query, NoAcc)
       IN IF cached # NoAcc
          THEN Send(p, [Response(200, "", NoTx) EXCEPT !.account = cached, !.cached = TRUE])
          ELSE Goto(p, "aget:findOne")
    /\ UNCHANGED <<Transaction, Account, now, req, acc, newTransaction, pre,
                   opening, Investor, accountInvestor, redis, applied, threw, bulk, nreq>>

\* part_002 lines 97-100: Account.findOne({ accountNumber: Number(accountNumber) })
AGetFindOne(p) ==
    /\ pc[p] = "aget:findOne"
    /\ LET account == AccountFindOne(Account, ToNumber(req[p].query))
       IN IF account = NoAcc
          THEN /\ Send(p, Response(404, "Account not found", NoTx))
               /\ UNCHANGED acc
          ELSE /\ acc' = [acc EXCEPT ![p] = account]
               /\ Goto(p, "aget:populate")
    /\ UNCHANGED <<Transaction, Account, now, req, newTransaction, pre,
                   opening, Investor, accountInvestor, redis, applied, threw, bulk, nreq>>

\* part_002 line 102: account.populate('investor')
AGetPopulate(p) ==
    /\ pc[p] = "aget:populate"
    /\ Goto(p, "aget:set")
    /\ UNCHANGED <<Transaction, Account, now, req, acc, newTransaction, pre,
                   opening, Investor, accountInvestor, redis, applied, threw, bulk, nreq>>

\* part_002 lines 105-107: redisClient.set(cacheKey, JSON.stringify(populatedAccount)), then 200
AGetSet(p) ==
    /\ pc[p] = "aget:set"
    /\ redis' = [redis EXCEPT !.account = CacheSet(@, req[p].query, acc[p])]
    /\ Send(p, [Response(200, "", NoTx) EXCEPT !.account = acc[p]])
    /\ UNCHANGED <<Transaction, Account, now, req, acc, newTransaction, pre,
                   opening, Investor, accountInvestor, applied, threw, bulk, nreq>>

\* the awaits of the two read handlers that call the cache
CacheCalls == {"aget:get", "aget:set", "tget:get", "tget:set"}

\* part_002 lines 108-111: an awaited call, one of calls, rejects; the catch answers 500
AGetThrows(p, calls) ==
    /\ pc[p] \in calls \cap {"aget:get", "aget:findOne", "aget:populate", "aget:set"}
    /\ threw' = [threw EXCEPT ![p] = pc[p]]
    /\ Send(p, Response(500, "Failed to retrieve account", NoTx))
    /\ UNCHANGED <<Transaction, Account, now, req, acc, newTransaction, pre,
                   opening, Investor, accountInvestor, redis, applied, bulk, nreq>>

\* -------------------------------------------------- GET /transaction/get
\* lines 303-307: the request arrives; a missing transactionId is answered 400
TGetReceive(p, transactionId, limit) ==
    /\ Accept(p, Request("tget", NoBody, transactionId, << >>), NoBulk, limit)
    /\ IF transactionId = 0
       THEN Send(p, Response(400, "transactionId is required as query parameter", NoTx))
       ELSE /\ pc' = [pc EXCEPT ![p] = "tget:get"]
            /\ res' = [res EXCEPT ![p] = NoRes]
    /\ UNCHANGED <<Transaction, Account, now, opening, Investor, accountInvestor, redis, applied>>

\* lines 310-315: redisClient.get(`transaction:${transactionId}`); a hit is answered
TGetCache(p) ==
    /\ pc[p] = "tget:get"
    /\ LET cached == CacheGet(redis.transaction, req[p].transactionId, NoTx)
       IN IF cached # NoTx
          THEN Send(p, [Response(200, "", cached) EXCEPT !.cached = TRUE])
          ELSE Goto(p, "tget:findById")
    /\ UNCHANGED <<Transaction, Account, now, req, acc, newTransaction, pre,
                   opening, Investor, accountInvestor, redis, applied, threw, bulk, nreq>>

\* lines 317-320: Transaction.findById(transactionId)
TGetFindById(p) ==
    /\ pc[p] = "tget:findById"
    /\ LET transaction == TransactionFindById(Transaction, req[p].transactionId)
       IN IF transaction = NoTx
          THEN /\ Send(p, Response(404, "Transaction not found", NoTx))
               /\ UNCHANGED newTransaction
          ELSE /\ newTransaction' = [newTransaction EXCEPT ![p] = transaction]
               /\ Goto(p, "tget:set")
    /\ UNCHANGED <<Transaction, Account, now, req, acc, pre,
                   opening, Investor, accountInvestor, redis, applied, threw, bulk, nreq>>

\* lines 323-325: redisClient.set(cacheKey, JSON.stringify(transaction)), then 200
TGetSet(p) ==
    /\ pc[p] = "tget:set"
    /\ redis' = [redis EXCEPT !.transaction =
                    CacheSet(@, req[p].transactionId, newTransaction[p])]
    /\ Send(p, Response(200, "", newTransaction[p]))
    /\ UNCHANGED <<Transaction, Account, now, req, acc, newTransaction, pre,
                   opening, Investor, accountInvestor, applied, threw, bulk, nreq>>

\* lines 326-329: an awaited call, one of calls, rejects; the catch answers 500
TGetThrows(p, calls) ==
    /\ pc[p] \in calls \cap {"tget:get", "tget:findById", "tget:set"}
    /\ threw' = [threw EXCEPT ![p] = pc[p]]
    /\ Send(p, Response(500, "Failed to retrieve transaction", NoTx))
    /\ UNCHANGED <<Transaction, Account, now, req, acc, newTransaction, pre,
                   opening, Investor, accountInvestor, redis, applied, bulk, nreq>>

\* --------------------------------------------------- DELETE /account/delete
\* the documents of a collection, given by their _id and a second field, that
\* match { $or: [id ? { _id: id } : {}, given ? { field: value } : {}] }: a
\* parameter that is not sent contributes the clause {}, which every document
\* matches
MatchesOr(docs, id, given, value) ==
    {d \in docs : \/ (id = 0 \/ d = id)
                  \/ (~given \/ d = value)}

\* the Account collection without the accounts of gone
AccountDelete(accounts, gone) == [n \in DOMAIN accounts \ gone |-> accounts[n]]

\* part_002 lines 143-147: the request arrives; with neither accountId nor
\* accountNumber it is answered 400.  The _id of an account is modelled by its
\* accountNumber.
ADelReceive(p, accountId, accountNumber, limit) ==
    /\ Accept(p, [Request("adelete", NoBody, 0, << >>)
                     EXCEPT !.query = accountNumber, !.accountId = accountId],
              NoBulk, limit)
    /\ IF accountId = 0 /\ accountNumber = NoQuery
       THEN Send(p, Response(400, "accountId or accountNumber is required as query parameter",
                             NoTx))
       ELSE /\ pc' = [pc EXCEPT ![p] = "adel:findOne"]
            /\ res' = [res EXCEPT ![p] = NoRes]
    /\ UNCHANGED <<Transaction, Account, now, opening, Investor, accountInvestor, redis, applied>>

\* part_002 lines 149-158: Account.findOne({ $or: [...] }) answers with one of
\* the matching documents, in the store's natural order, which the query does
\* not fix
ADelFindOne(p) ==
    /\ pc[p] = "adel:findOne"
    /\ LET found == MatchesOr(DOMAIN Account, req[p].accountId, req[p].query # NoQuery,
                              IF req[p].query = NoQuery THEN 0 ELSE ToNumber(req[p].query))
       IN IF found = {}
          THEN /\ Send(p, Response(404, "Account not found", NoTx))
               /\ UNCHANGED acc
          ELSE \E n \in found :
                  /\ acc' = [acc EXCEPT ![p] = AccountFindOne(Account, n)]
                  /\ Goto(p, "adel:deleteOne")
    /\ UNCHANGED <<Transaction, Account, now, req, newTransaction, pre,
                   opening, Investor, accountInvestor, redis, applied, threw, bulk, nreq>>

\* part_002 line 160: account.deleteOne()
ADelDeleteOne(p) ==
    /\ pc[p] = "adel:deleteOne"
    /\ Account' = AccountDelete(Account, {acc[p].accountNumber})
    /\ accountInvestor' = AccountDelete(accountInvestor, {acc[p].accountNumber})
    /\ Goto(p, "adel:del")
    /\ UNCHANGED <<Transaction, now, req, acc, newTransaction, pre,
                   opening, Investor, redis, applied, threw, bulk, nreq>>

\* part_002 lines 163-165: redisClient.del(`account:${account.accountNumber}`), then 200
ADelDel(p) ==
    /\ pc[p] = "adel:del"
    /\ redis' = [redis EXCEPT !.account = CacheDel(@, Format(acc[p].accountNumber))]
    /\ Send(p, Response(200, "", NoTx))
    /\ UNCHANGED <<Transaction, Account, now, req, acc, newTransaction, pre,
                   opening, Investor, accountInvestor, applied, threw, bulk, nreq>>

\* ------------------------------------------------------ PUT /account/update
\* the fields of the body other than accountId and accountNumber
NoData == [k \in {} |-> 0]
UpdateBody(accountNumber, updateData) ==
    [accountNumber |-> accountNumber, updateData |-> updateData]

\* part_002 lines 203-207: the request arrives; with neither accountId nor
\* accountNumber it is answered 400
AUpdReceive(p, accountId, accountNumber, updateData, limit) ==
    /\ Accept(p, [Request("aupdate", UpdateBody(accountNumber, updateData), 0, << >>)
                     EXCEPT !.accountId = accountId],
              NoBulk, limit)
    /\ IF accountId = 0 /\ accountNumber = 0
       THEN Send(p, Response(400, "accountId or accountNumber is required", NoTx))
       ELSE /\ pc' = [pc EXCEPT ![p] = "aupd:findOne"]
            /\ res' = [res EXCEPT ![p] = NoRes]
    /\ UNCHANGED <<Transaction, Account, now, opening, Investor, accountInvestor, redis, applied>>

\* part_002 lines 209-218: Account.findOne({ $or: [...] })
AUpdFindOne(p) ==
    /\ pc[p] = "aupd:findOne"
    /\ LET found == MatchesOr(DOMAIN Account, req[p].accountId,
                              req[p].body.accountNumber # 0, req[p].body.accountNumber)
       IN IF found = {}
          THEN /\ Send(p, Response(404, "Account not found", NoTx))
               /\ UNCHANGED acc
          ELSE \E n \in found :
                  /\ acc' = [acc EXCEPT ![p] = AccountFindOne(Account, n)]
                  /\ Goto(p, "aupd:save")
    /\ UNCHANGED <<Transaction, Account, now, req, newTransaction, pre,
                   opening, Investor, accountInvestor, redis, applied, threw, bulk, nreq>>

\* part_002 line 219: account.set(updateData)
AccountSet(doc, updateData) ==
    IF "money" \in DOMAIN updateData THEN [doc EXCEPT !.money = updateData.money] ELSE doc

\* part_002 lines 219-220 and 226-229: account.set(updateData), account.save();
\* the schema's validator rejects an investor that is not registered, and the
\* catch answers 500
AUpdSave(p) ==
    /\ pc[p] = "aupd:save"
    /\ LET updateData == req[p].body.updateData
           account == AccountSet(acc[p], updateData)
       IN IF "investor" \in DOMAIN updateData /\ updateData.investor \notin Investor
          THEN /\ Send(p, Response(500, "Failed to update account", NoTx))
               /\ threw' = [threw EXCEPT ![p] = pc[p]]
               /\ UNCHANGED <<Account, accountInvestor, acc>>
          ELSE /\ Account' = AccountSave(Account, account)
               /\ accountInvestor' =
                      IF "investor" \in DOMAIN updateData
                      THEN [accountInvestor EXCEPT ![account.accountNumber] = updateData.investor]
                      ELSE accountInvestor
               /\ acc' = [acc EXCEPT ![p] = account]
               /\ Goto(p, "aupd:del")
               /\ UNCHANGED threw
    /\ UNCHANGED <<Transaction, now, req, newTransaction, pre,
                   opening, Investor, redis, applied, bulk, nreq>>

\* part_002 lines 223-225: redisClient.del(`account:${account.accountNumber}`), then 200
AUpdDel(p) ==
    /\ pc[p] = "aupd:del"
    /\ redis' = [redis EXCEPT !.account = CacheDel(@, Format(acc[p].accountNumber))]
    /\ Send(p, [Response(200, "", NoTx) EXCEPT !.account = acc[p]])
    /\ UNCHANGED <<Transaction, Account, now, req, acc, newTransaction, pre,
                   opening, Investor, accountInvestor, applied, threw, bulk, nreq>>

\* ----------------------------------------------------- POST /investor/delete
\* the accounts whose investor field is i
AccountsOf(i) == {n \in DOMAIN accountInvestor : accountInvestor[n] = i}

InvestorBody(investorId, nic) == [investorId |-> investorId, nic |-> nic]

\* logging.ts lines 170-202: the request arrives; with neither investorId nor
\* nic it is answered 400.  The nic of an investor is modelled by its _id.
IDelReceive(p, investorId, nic, limit) ==
    /\ Accept(p, Request("idelete", InvestorBody(investorId, nic), 0, << >>), NoBulk, limit)
    /\ IF investorId = 0 /\ nic = 0
       THEN Send(p, Response(400, "investorId or nic is required", NoTx))
       ELSE /\ pc' = [pc EXCEPT ![p] = "idel:findOne"]
            /\ res' = [res EXCEPT ![p] = NoRes]
    /\ UNCHANGED <<Transaction, Account, now, opening, Investor, accountInvestor, redis, applied>>

\* logging.ts lines 204-211: Investor.findOne({ $or: [...] }); the slot keeps
\* the investor's _id in acc.accountNumber
IDelFindOne(p) ==
    /\ pc[p] = "idel:findOne"
    /\ LET found == MatchesOr(Investor, req[p].body.investorId,
                              req[p].body.nic # 0, req[p].body.nic)
       IN IF found = {}
          THEN /\ Send(p, Response(404, "Investor not found", NoTx))
               /\ UNCHANGED acc
          ELSE \E i \in found :
                  /\ acc' = [acc EXCEPT ![p] = [NoAcc EXCEPT !.accountNumber = i]]
                  /\ Goto(p, "idel:deleteMany")
    /\ UNCHANGED <<Transaction, Account, now, req, newTransaction, pre,
                   opening, Investor, accountInvestor, redis, applied, threw, bulk, nreq>>

\* logging.ts line 212: Account.deleteMany({ investor: investor._id })
IDelDeleteMany(p) ==
    /\ pc[p] = "idel:deleteMany"
    /\ Account' = AccountDelete(Account, AccountsOf(acc[p].accountNumber))
    /\ accountInvestor' = AccountDelete(accountInvestor, AccountsOf(acc[p].accountNumber))
    /\ Goto(p, "idel:deleteOne")
    /\ UNCHANGED <<Transaction, now, req, acc, newTransaction, pre,
                   opening, Investor, redis, applied, threw, bulk, nreq>>

\* logging.ts lines 214-215: investor.deleteOne(), then 200
IDelDeleteOne(p) ==
    /\ pc[p] = "idel:deleteOne"
    /\ Investor' = Investor \ {acc[p].accountNumber}
    /\ Send(p, Response(200, "", NoTx))
    /\ UNCHANGED <<Transaction, Account, now, req, acc, newTransaction, pre,
                   opening, accountInvestor, redis, applied, threw, bulk, nreq>>

\* ------------------------------------------------------- specifications
NoneInFlight == \A q \in Procs : Idle(q)

NewSteps(p) ==
    \/ NewFindOne(p) \/ NewAccFindOne(p) \/ NewSave(p) \/ NewAccSave(p) \/ NewDel(p)
RevSteps(p) ==
    \/ RevFindById(p) \/ RevSave(p) \/ RevInc(p) \/ RevDelTx(p) \/ RevDelAcc(p)
BulkSteps(p) ==
    \/ BulkFindOne(p) \/ BulkAccFindOne(p) \/ BulkSave(p) \/ BulkAccSave(p) \/ BulkDel(p)

\* transactionId values a client may send: none (0), persisted ones, an unknown one
TransactionIds == 0..(Len(Transaction) + 1)

\* Spec: requests to /transaction/new and /transaction/reverse are served one
\* after the other; the store and the cache never fail.
Next ==
    \/ \E p \in Procs : \E body \in NewBodies : NoneInFlight /\ NewReceive(p, body, MaxRequests)
    \/ \E p \in Procs : \E id \in TransactionIds : NoneInFlight /\ RevReceive(p, id, MaxRequests)
    \/ \E p \in Procs : NewSteps(p)
    \/ \E p \in Procs : RevSteps(p)

Spec == Init /\ [][Next]_vars

\* SpecConc: NumProcs requests on account 1, one per slot, arrive at any time
\* and their awaits interleave in any order; the store and the cache never fail.
ConcAccount == CHOOSE n \in AccountNumbers : \A m \in AccountNumbers : n <= m
ConcBodies ==
    [idempotencyKey : ClientKeys, accountNumber : {ConcAccount}, amount : Amounts, type : Types]
ConcRows ==
    {Row(k, 1, ConcAccount, t, {}) : k \in ClientKeys, t \in Types}
ConcBatches == UNION {[1..n -> ConcRows] : n \in 1..MaxRows}

NextConc ==
    \/ \E p \in Procs : \E body \in ConcBodies : NewReceive(p, body, NumProcs)
    \/ \E p \in Procs : \E id \in 1..Len(Transaction) : RevReceive(p, id, NumProcs)
    \/ \E p \in Procs : \E rows \in ConcBatches : BulkReceive(p, rows, NumProcs)
    \/ \E p \in Procs : NewSteps(p)
    \/ \E p \in Procs : RevSteps(p)
    \/ \E p \in Procs : BulkSteps(p)

SpecConc == Init /\ [][NextConc]_vars

\* SpecFail: requests to /transaction/new on account 1 are served one after
\* the other, and any awaited store or cache call may reject.
NextFail ==
    \/ \E p \in Procs : \E body \in ConcBodies : NoneInFlight /\ NewReceive(p, body, MaxRequests)
    \/ \E p \in Procs : NewSteps(p)
    \/ \E p \in Procs : NewThrows(p)

SpecFail == Init /\ [][NextFail]_vars

\* SpecCache: requests to /transaction/new, /transaction/reverse,
\* /transaction/get and /account/get are served one after the other; the store
\* and the cache never fail.  The accountNumber of a query is sent as its
\* numeral or with a leading zero.
AGetSteps(p) == AGetCache(p) \/ AGetFindOne(p) \/ AGetPopulate(p) \/ AGetSet(p)
TGetSteps(p) == TGetCache(p) \/ TGetFindById(p) \/ TGetSet(p)
CacheBodies ==
    ConcBodies \cup {Body(<<1>>, MissingAccount, 1, "credit"), Body(NoKey, ConcAccount, 1, "credit")}
Queries ==
    {Text(ConcAccount, z) : z \in {0, 1}} \cup {Text(MissingAccount, 0), NoQuery}

NextCache ==
    \/ \E p \in Procs : \E body \in CacheBodies : NoneInFlight /\ NewReceive(p, body, MaxRequests)
    \/ \E p \in Procs : \E id \in TransactionIds : NoneInFlight /\ RevReceive(p, id, MaxRequests)
    \/ \E p \in Procs : \E a \in Queries : NoneInFlight /\ AGetReceive(p, a, MaxRequests)
    \/ \E p \in Procs : \E id \in TransactionIds : NoneInFlight /\ TGetReceive(p, id, MaxRequests)
    \/ \E p \in Procs : NewSteps(p)
    \/ \E p \in Procs : RevSteps(p)
    \/ \E p \in Procs : AGetSteps(p)
    \/ \E p \in Procs : TGetSteps(p)

SpecCache == Init /\ [][NextCache]_vars

\* SpecAmount: requests to /transaction/new on account 1 whose amount is any
\* integer, negative and zero included, are served one after the other.
SignedAmounts == (0 - MaxAmount)..MaxAmount
AmountBodies ==
    [idempotencyKey : ClientKeys, accountNumber : {ConcAccount}, amount : SignedAmounts,
     type : Types]

NextAmount ==
    \/ \E p \in Procs : \E body \in AmountBodies : NoneInFlight /\ NewReceive(p, body, MaxRequests)
    \/ \E p \in Procs : NewSteps(p)

SpecAmount == Init /\ [][NextAmount]_vars

\* SpecBulk: NumProcs requests to /transaction/new-bulk, /transaction/new and
\* /transaction/reverse are served one after the other; the store and the
\* cache never fail.  A row names account 1 or an account that does not exist,
\* and one row has an empty amount column.
BulkRows ==
    ConcRows
    \cup {Row(k, 1, MissingAccount, "credit", {}) : k \in ClientKeys}
    \cup {Row(<<1>>, 1, ConcAccount, "credit", {"amount"})}
Batches == UNION {[1..n -> BulkRows] : n \in 1..MaxRows}

NextBulk ==
    \/ \E p \in Procs : \E rows \in Batches : NoneInFlight /\ BulkReceive(p, rows, NumProcs)
    \/ \E p \in Procs : \E body \in ConcBodies : NoneInFlight /\ NewReceive(p, body, NumProcs)
    \/ \E p \in Procs : \E id \in 1..Len(Transaction) : NoneInFlight /\ RevReceive(p, id, NumProcs)
    \/ \E p \in Procs : BulkSteps(p)
    \/ \E p \in Procs : NewSteps(p)
    \/ \E p \in Procs : RevSteps(p)

SpecBulk == Init /\ [][NextBulk]_vars

\* SpecBulkFail: NumProcs uploads of rows on account 1 are served one after
\* the other, and any awaited store or cache call may reject.
NextBulkFail ==
    \/ \E p \in Procs : \E rows \in ConcBatches : NoneInFlight /\ BulkReceive(p, rows, NumProcs)
    \/ \E p \in Procs : BulkSteps(p)
    \/ \E p \in Procs : BulkThrowsInner(p)
    \/ \E p \in Procs : BulkThrowsOuter(p)

SpecBulkFail == Init /\ [][NextBulkFail]_vars

\* SpecCacheFail: requests to /transaction/new, /transaction/get and
\* /account/get are served one after the other; the store never fails, and
\* any awaited cache call of the two read handlers may reject.
NextCacheFail ==
    \/ \E p \in Procs : \E body \in ConcBodies : NoneInFlight /\ NewReceive(p, body, MaxRequests)
    \/ \E p \in Procs : \E a \in Queries : NoneInFlight /\ AGetReceive(p, a, MaxRequests)
    \/ \E p \in Procs : \E id \in TransactionIds : NoneInFlight /\ TGetReceive(p, id, MaxRequests)
    \/ \E p \in Procs : NewSteps(p)
    \/ \E p \in Procs : AGetSteps(p)
    \/ \E p \in Procs : TGetSteps(p)
    \/ \E p \in Procs : AGetThrows(p, CacheCalls)
    \/ \E p \in Procs : TGetThrows(p, CacheCalls)

SpecCacheFail == Init /\ [][NextCacheFail]_vars

\* SpecDiff: NumProcs requests to /transaction/new on accounts 1 and 2; a
\* request arrives while no request on its own account is in flight, so that
\* requests on different accounts interleave and requests on one account do
\* not; the store and the cache never fail.
DiffBodies ==
    [idempotencyKey : ClientKeys, accountNumber : AccountNumbers, amount : Amounts, type : Types]
OwnAccountFree(n) ==
    \A q \in Procs : ~Idle(q) => req[q].body.accountNumber # n

NextDiff ==
    \/ \E p \in Procs : \E body \in DiffBodies :
          OwnAccountFree(body.accountNumber) /\ NewReceive(p, body, NumProcs)
    \/ \E p \in Procs : NewSteps(p)

SpecDiff == Init /\ [][NextDiff]_vars

\* SpecRace: reads of account 1 by GET /account/get, sent with the canonical
\* numeral, run concurrently with /transaction/new and /transaction/reverse
\* requests on the same account; the writes do not overlap one another, and
\* the store and the cache never fail.
WriteInFlight == \E q \in Procs : ~Idle(q) /\ req[q].route \in {"new", "reverse"}

NextRace ==
    \/ \E p \in Procs : \E body \in ConcBodies :
          ~WriteInFlight /\ NewReceive(p, body, MaxRequests)
    \/ \E p \in Procs : \E id \in 1..Len(Transaction) :
          ~WriteInFlight /\ RevReceive(p, id, MaxRequests)
    \/ \E p \in Procs : AGetReceive(p, Format(ConcAccount), MaxRequests)
    \/ \E p \in Procs : NewSteps(p)
    \/ \E p \in Procs : RevSteps(p)
    \/ \E p \in Procs : AGetSteps(p)

SpecRace == Init /\ [][NextRace]_vars

\* SpecAccount: requests to /transaction/new, GET /account/get,
\* DELETE /account/delete, PUT /account/update and POST /investor/delete are
\* served one after the other; the store and the cache never fail.
ADelSteps(p) == ADelFindOne(p) \/ ADelDeleteOne(p) \/ ADelDel(p)
AUpdSteps(p) == AUpdFindOne(p) \/ AUpdSave(p) \/ AUpdDel(p)
IDelSteps(p) == IDelFindOne(p) \/ IDelDeleteMany(p) \/ IDelDeleteOne(p)
AccountBodies == {Body(<<1>>, ConcAccount, 1, t) : t \in Types}
AccountRefs == {0, ConcAccount}
UpdateData ==
    {NoData, [money |-> MaxMoney], [money |-> 0], [investor |-> MissingInvestor]}
    \cup {[investor |-> NumInvestors]}

NextAccount ==
    \/ \E p \in Procs : \E body \in AccountBodies :
          NoneInFlight /\ NewReceive(p, body, MaxRequests)
    \/ \E p \in Procs : \E a \in Queries : NoneInFlight /\ AGetReceive(p, a, MaxRequests)
    \/ \E p \in Procs : \E id \in AccountRefs : \E a \in {NoQuery, Format(ConcAccount)} :
          NoneInFlight /\ ADelReceive(p, id, a, MaxRequests)
    \/ \E p \in Procs : \E id, n \in AccountRefs : \E data \in UpdateData :
          NoneInFlight /\ AUpdReceive(p, id, n, data, MaxRequests)
    \/ \E p \in Procs : \E id \in {0} \cup InvestorIds : \E nic \in {0, MissingInvestor} :
          NoneInFlight /\ IDelReceive(p, id, nic, MaxRequests)
    \/ \E p \in Procs : NewSteps(p)
    \/ \E p \in Procs : AGetSteps(p)
    \/ \E p \in Procs : ADelSteps(p)
    \/ \E p \in Procs : AUpdSteps(p)
    \/ \E p \in Procs : IDelSteps(p)

SpecAccount == Init /\ [][NextAccount]_vars

\* SpecBulkLive: NumProcs uploads, of no row up to MaxRows rows on account 1
\* or of a file the parser rejects, are served one after the other; any
\* awaited store or cache call may reject, and every awaited call settles: a
\* handler that can take its next step eventually takes it.
LiveRows == {Row(<<1>>, 1, ConcAccount, "credit", {}), Row(<<2>>, 1, ConcAccount, "debit", {})}
LiveBatches == UNION {[1..n -> LiveRows] : n \in 0..MaxRows}

NextBulkLive ==
    \/ \E p \in Procs : \E rows \in LiveBatches :
          NoneInFlight /\ BulkReceive(p, rows, NumProcs)
    \/ \E p \in Procs : NoneInFlight /\ BulkInvalid(p, NumProcs)
    \/ \E p \in Procs : BulkSteps(p)
    \/ \E p \in Procs : BulkThrowsInner(p)
    \/ \E p \in Procs : BulkThrowsOuter(p)

SpecBulkLive ==
    /\ Init /\ [][NextBulkLive]_vars
    /\ \A p \in Procs : WF_vars(BulkSteps(p) \/ BulkThrowsInner(p) \/ BulkThrowsOuter(p))

\* ------------------------------------------------------------ properties
Answered(p, route) == pc[p] = "done" /\ req[p].route = route
Accepted(p, route) == Answered(p, route) /\ res[p].status = 201
Latest(p) == pre[p].seq = nreq
KeyFresh(store, key) == \A i \in 1..Len(store) : store[i].idempotencyKey # key
StoreUntouched(p) == Transaction = pre[p].Transaction /\ Account = pre[p].Account
KeyCount(store, key) == Cardinality({i \in 1..Len(store) : store[i].idempotencyKey = key})
AppliedCount(key) == Cardinality({i \in 1..Len(applied) : applied[i][1] = key})
Duplicate(tx) == Response(409, "Transaction with this idempotencyKey already exists", tx)

\* the signed sum of the persisted Transactions of account a
RECURSIVE LedgerSum(_, _)
LedgerSum(store, a) ==
    IF store = << >> THEN 0
    ELSE LedgerSum(Tail(store), a)
         + (IF Head(store).accountNumber # a THEN 0
            ELSE IF Head(store).type = "credit" THEN Head(store).amount
            ELSE 0 - Head(store).amount)

\* q was accepted by /transaction/new and p, arriving after q was answered,
\* repeats q's body
Repeats(p, q) ==
    /\ p # q
    /\ Accepted(q, "new")
    /\ Answered(p, "new")
    /\ req[p].body = req[q].body
    /\ pre[p].seq > pre[q].seq

\* C1: served one after the other, the repetition of an accepted
\* /transaction/new request is answered 409 with the Transaction the first
\* one persisted, and it leaves the Transactions and every balance as they
\* were: the key has exactly one Transaction and exactly one balance write.
C1_Idempotency ==
    \A p, q \in Procs :
        Repeats(p, q) =>
            /\ res[p] = Duplicate(res[q].transaction)
            /\ res[q].transaction.id \in 1..Len(pre[q].Transaction) + 1
            /\ Transaction[res[q].transaction.id] = res[q].transaction
            /\ res[q].transaction.idempotencyKey = req[p].body.idempotencyKey
            /\ Latest(p) => StoreUntouched(p)
            /\ KeyCount(Transaction, req[p].body.idempotencyKey) = 1
            /\ AppliedCount(req[p].body.idempotencyKey) = 1

C1_Witness ==
    \E p, q \in Procs :
        /\ Repeats(p, q)
        /\ Latest(p)
        /\ res[p].status = 409
        /\ Account[req[p].body.accountNumber] # opening[req[p].body.accountNumber]

\* a /transaction/new debit that asks for more than the balance it arrives at
Overdrawing(p) ==
    /\ Answered(p, "new")
    /\ req[p].body.type = "debit"
    /\ req[p].body.idempotencyKey # NoKey
    /\ req[p].body.accountNumber \in DOMAIN pre[p].Account
    /\ req[p].body.amount > pre[p].Account[req[p].body.accountNumber]

\* C2: served alone, a /transaction/new debit of more than the account's
\* balance persists no Transaction and leaves every balance as it was, and
\* (its key not being persisted yet) it is answered 400 'Insufficient funds'.
C2_NoOverdraft ==
    \A p \in Procs :
        Overdrawing(p) =>
            /\ Latest(p) => StoreUntouched(p)
            /\ KeyFresh(pre[p].Transaction, req[p].body.idempotencyKey)
                  => res[p] = Response(400, "Insufficient funds", NoTx)

C2_Witness ==
    \E p \in Procs :
        /\ Overdrawing(p)
        /\ Latest(p)
        /\ res[p] = Response(400, "Insufficient funds", NoTx)
        /\ pre[p].Account[req[p].body.accountNumber] > 0

\* two accepted /transaction/new debits with distinct keys on one account,
\* the only Transactions persisted so far
TwoDebits(p, q) ==
    /\ p # q
    /\ Accepted(p, "new") /\ Accepted(q, "new")
    /\ req[p].body.type = "debit" /\ req[q].body.type = "debit"
    /\ req[p].body.accountNumber = req[q].body.accountNumber
    /\ req[p].body.idempotencyKey # req[q].body.idempotencyKey
    /\ Len(Transaction) = 2

\* C3: however two /transaction/new debits on one account interleave, the
\* accepted amounts together do not exceed the balance that preceded them,
\* and the stored balance is not negative.
C3_NoJointOverdraft ==
    \A p, q \in Procs :
        TwoDebits(p, q) =>
            /\ req[p].body.amount + req[q].body.amount <= opening[req[p].body.accountNumber]
            /\ Account[req[p].body.accountNumber] >= 0

\* C4: when every request has been answered, each balance is the opening
\* balance plus the persisted credits minus the persisted debits: no accepted
\* balance change is lost, whatever the interleaving.
C4_SerializedFinalBalance ==
    NoneInFlight =>
        \A a \in DOMAIN Account : Account[a] = opening[a] + LedgerSum(Transaction, a)

\* C5: no two persisted Transactions carry the same idempotencyKey, whatever
\* the interleaving of /transaction/new requests and batch rows.
C5_UniqueKey ==
    \A i, j \in 1..Len(Transaction) :
        Transaction[i].idempotencyKey = Transaction[j].idempotencyKey => i = j

\* two requests with one key both passed the existence check; one persisted
\* its Transaction, the other met the unique index
C5_Witness ==
    \E p, q \in Procs :
        /\ p # q
        /\ Accepted(q, "new")
        /\ Answered(p, "new")
        /\ req[p].body.idempotencyKey = req[q].body.idempotencyKey
        /\ threw[p] = "new:save"
        /\ KeyCount(Transaction, req[p].body.idempotencyKey) = 1

\* p passed the existence check and then lost at the unique index
LostAtIndex(p) ==
    /\ Answered(p, "new")
    /\ threw[p] = "new:save"
    /\ ~KeyFresh(Transaction, req[p].body.idempotencyKey)

\* C6: the /transaction/new request that loses at the unique index is
\* answered with the 409 duplicate conflict.
C6_LoserGetsConflict ==
    \A p \in Procs : LostAtIndex(p) => res[p].status = 409

\* q is an accepted /transaction/new credit and p, the next request, is the
\* accepted reversal of the Transaction q persisted
CreditThenReversal(p, q) ==
    /\ Accepted(q, "new")
    /\ req[q].body.type = "credit"
    /\ Accepted(p, "reverse")
    /\ req[p].transactionId = res[q].transaction.id
    /\ pre[p].seq = pre[q].seq + 1

\* C7: served one after the other, a credit followed by its reversal leaves
\* the balance where it was before the credit; the original Transaction is
\* unchanged and the reversal is the one Transaction added after it.
C7_BalanceConservation ==
    \A p, q \in Procs :
        (CreditThenReversal(p, q) /\ Latest(p)) =>
            /\ Account = pre[q].Account
            /\ Transaction = pre[q].Transaction \o <<res[q].transaction, res[p].transaction>>
            /\ res[q].transaction.idempotencyKey = req[q].body.idempotencyKey
            /\ res[q].transaction.amount = req[q].body.amount
            /\ res[p].transaction.type = "debit"

C7_Witness ==
    \E p, q \in Procs :
        /\ CreditThenReversal(p, q)
        /\ Latest(p)
        /\ Account[req[q].body.accountNumber] = pre[q].Account[req[q].body.accountNumber]
        /\ Len(Transaction) = Len(pre[q].Transaction) + 2

\* the reversal request p names a credit whose amount exceeds the balance
ReversalOverdraws(p) ==
    /\ Answered(p, "reverse")
    /\ Latest(p)
    /\ req[p].transactionId \in 1..Len(pre[p].Transaction)
    /\ LET t == pre[p].Transaction[req[p].transactionId]
       IN /\ t.type = "credit"
          /\ t.accountNumber \in DOMAIN pre[p].Account
          /\ t.amount > pre[p].Account[t.accountNumber]

\* C8: the reversal of a credit larger than the current balance is blocked:
\* no reversal Transaction is persisted, the balance is unchanged, and no
\* balance is below zero.
C8_ReversalBlocked ==
    \A p \in Procs :
        ReversalOverdraws(p) =>
            /\ StoreUntouched(p)
            /\ \A a \in DOMAIN Account : Account[a] >= 0

\* C9: the answer to a /transaction/new whose Account write failed after the
\* Transaction was persisted differs from the answer to one whose
\* Transaction write failed.
C9_PartialApplyDistinct ==
    \A p, q \in Procs :
        ( /\ Answered(p, "new") /\ threw[p] = "new:accSave"
          /\ Answered(q, "new") /\ threw[q] = "new:save" )
        => res[p] # res[q]

\* C10: a /transaction/new answered with an error, other than one that failed
\* between the Transaction write and the Account write, has persisted no
\* Transaction and changed no balance.
C10_ErrorCommitsNothing ==
    \A p \in Procs :
        ( /\ Answered(p, "new")
          /\ Latest(p)
          /\ res[p].status # 201
          /\ threw[p] # "new:accSave" )
        => StoreUntouched(p)

\* p is the last request, answered with a client error by /transaction/new
\* (400, 404, 409) or by /transaction/reverse (400, 404)
Refused(p) ==
    /\ Latest(p)
    /\ \/ Answered(p, "new") /\ res[p].status \in {400, 404, 409}
       \/ Answered(p, "reverse") /\ res[p].status \in {400, 404}

\* C11: a /transaction/new request answered 400, 404 or 409 and a
\* /transaction/reverse request answered 400 or 404 leave the persisted
\* Transactions, every balance and every cache entry as the request found them.
C11_RefusalChangesNothing ==
    \A p \in Procs :
        Refused(p) =>
            /\ Transaction = pre[p].Transaction
            /\ Account = pre[p].Account
            /\ redis = pre[p].redis

C11_Witness ==
    \E p, q \in Procs :
        /\ Refused(p) /\ Answered(p, "new") /\ res[p].status = 409
        /\ Answered(q, "aget") /\ res[q].status = 200
        /\ Format(req[p].body.accountNumber) \in DOMAIN redis.account

\* C12: a /transaction/new request whose amount is zero or negative is
\* rejected: it is not answered 201, no Transaction is persisted and no
\* balance changes.
C12_NonPositiveAmountRejected ==
    \A p \in Procs :
        (Answered(p, "new") /\ Latest(p) /\ req[p].body.amount <= 0) =>
            /\ res[p].status # 201
            /\ StoreUntouched(p)

\* C13: a persisted Transaction is immutable: no step of /transaction/new,
\* /transaction/new-bulk or /transaction/reverse changes a field of a persisted
\* Transaction or removes one; the collection only grows.
C13_TransactionsImmutable ==
    [][/\ Len(Transaction') >= Len(Transaction)
       /\ \A i \in 1..Len(Transaction) : Transaction'[i] = Transaction[i]]_vars

C13_Witness ==
    \E p \in Procs :
        /\ Accepted(p, "reverse") /\ Latest(p)
        /\ Len(Transaction) = Len(pre[p].Transaction) + 1
        /\ Transaction[req[p].transactionId] = pre[p].Transaction[req[p].transactionId]
        /\ Transaction[Len(Transaction)].type # Transaction[req[p].transactionId].type

\* the signed sum of the amounts of the first n rows that name account a
RECURSIVE RowsDelta(_, _, _)
RowsDelta(rows, a, n) ==
    IF n = 0 THEN 0
    ELSE RowsDelta(rows, a, n - 1)
         + (IF rows[n].account # a THEN 0
            ELSE IF rows[n].type = "credit" THEN rows[n].amount
            ELSE 0 - rows[n].amount)

\* every row has its four columns, and the keys are pairwise distinct and
\* not persisted in store
FreshDistinctRows(rows, store) ==
    /\ \A i \in 1..Len(rows) : ~MissingFields(rows[i]) /\ KeyFresh(store, rows[i].idempotencyKey)
    /\ \A i, j \in 1..Len(rows) : i # j => rows[i].idempotencyKey # rows[j].idempotencyKey

\* p is an answered upload of fresh distinct rows in which row k names an
\* account that does not exist, and every other row names an existing account
\* whose balance, after the rows before it, covers it
OnlyRowWithoutAccount(p, k) ==
    LET rows == req[p].rows
        accounts == pre[p].Account
    IN /\ Answered(p, "bulk")
       /\ k \in 1..Len(rows)
       /\ FreshDistinctRows(rows, pre[p].Transaction)
       /\ rows[k].account \notin DOMAIN accounts
       /\ \A j \in 1..Len(rows) \ {k} :
             /\ rows[j].account \in DOMAIN accounts
             /\ rows[j].type = "debit" =>
                   accounts[rows[j].account] + RowsDelta(rows, rows[j].account, j - 1)
                       >= rows[j].amount

\* C14: in an upload of well-formed rows with fresh distinct keys where row k
\* names an account that does not exist and every other row passes the funds
\* check, every other row is inserted (its Transaction persisted, its balance
\* change applied), row k is the only failed row, with the reason 'Account
\* not found', and no Transaction carries row k's key.
C14_BatchIndependence ==
    \A p \in Procs : \A k \in 1..MaxRows + 1 :
        OnlyRowWithoutAccount(p, k) =>
            LET rows == req[p].rows
            IN /\ res[p].status = 201
               /\ res[p].report = Report(Len(rows) - 1, << >>, << Entry(k, "Account not found") >>)
               /\ Latest(p) =>
                     /\ KeyCount(Transaction, rows[k].idempotencyKey) = 0
                     /\ \A j \in 1..Len(rows) \ {k} :
                           KeyCount(Transaction, rows[j].idempotencyKey) = 1
                     /\ Len(Transaction) = Len(pre[p].Transaction) + Len(rows) - 1
                     /\ \A a \in DOMAIN Account :
                           Account[a] = pre[p].Account[a] + RowsDelta(rows, a, Len(rows))

C14_Witness ==
    \E p \in Procs :
        /\ OnlyRowWithoutAccount(p, 1)
        /\ Latest(p)
        /\ Len(req[p].rows) > 1
        /\ res[p].report.inserted = Len(req[p].rows) - 1
        /\ Account # pre[p].Account

\* the row indices of a list of report entries
EntryRows(entries) == {entries[i].row : i \in 1..Len(entries)}

\* C15: in the 201 report of an upload of N rows the counts add up to N:
\* inserted + skipped + failed = N, no row is listed twice and no row is
\* both skipped and failed.
C15_EachRowClassifiedOnce ==
    \A p \in Procs :
        (Answered(p, "bulk") /\ res[p].status = 201) =>
            LET r == res[p].report
            IN /\ r.inserted + Len(r.skipped) + Len(r.failed) = Len(req[p].rows)
               /\ Cardinality(EntryRows(r.skipped)) = Len(r.skipped)
               /\ Cardinality(EntryRows(r.failed)) = Len(r.failed)
               /\ EntryRows(r.skipped) \cap EntryRows(r.failed) = {}

\* the sum of the amounts of the debit rows before row n that name account a
RECURSIVE DebitsBefore(_, _, _)
DebitsBefore(rows, a, n) ==
    IF n <= 1 THEN 0
    ELSE DebitsBefore(rows, a, n - 1)
         + (IF rows[n - 1].account = a /\ rows[n - 1].type = "debit"
            THEN rows[n - 1].amount ELSE 0)

\* p is an answered upload in which rows i < j carry the same key, the key is
\* not persisted when the upload arrives, and row i, the first row with the
\* key, is valid: complete, on an existing account whose balance covers it
DuplicatePair(p, i, j) ==
    LET rows == req[p].rows
        accounts == pre[p].Account
    IN /\ Answered(p, "bulk") /\ res[p].status = 201
       /\ i \in 1..Len(rows) /\ j \in 1..Len(rows) /\ i < j
       /\ ~MissingFields(rows[i]) /\ ~MissingFields(rows[j])
       /\ rows[i].idempotencyKey = rows[j].idempotencyKey
       /\ \A h \in 1..(i - 1) :
             MissingFields(rows[h]) \/ rows[h].idempotencyKey # rows[i].idempotencyKey
       /\ KeyFresh(pre[p].Transaction, rows[i].idempotencyKey)
       /\ rows[i].account \in DOMAIN accounts
       /\ rows[i].type = "debit" =>
             accounts[rows[i].account] - DebitsBefore(rows, rows[i].account, i)
                 >= rows[i].amount

\* row i is in neither list of the report and its key has exactly one
\* Transaction and one balance write
InsertedOnce(p, i) ==
    /\ i \notin EntryRows(res[p].report.skipped) \cup EntryRows(res[p].report.failed)
    /\ res[p].report.inserted >= 1
    /\ Latest(p) =>
          /\ KeyCount(Transaction, req[p].rows[i].idempotencyKey) = 1
          /\ AppliedCount(req[p].rows[i].idempotencyKey) = 1

InSeq(e, entries) == \E n \in 1..Len(entries) : entries[n] = e

\* C16 as stated: of two rows of one upload with the same fresh key, the
\* first one valid, the first is inserted once and the second is skipped
\* with the reason 'Duplicate idempotencyKey in current batch'.
C16_DuplicateInBatchReason ==
    \A p \in Procs : \A i, j \in 1..MaxRows + 1 :
        DuplicatePair(p, i, j) =>
            /\ InsertedOnce(p, i)
            /\ InSeq(Entry(j, "Duplicate idempotencyKey in current batch"), res[p].report.skipped)

\* C16 amended: of two rows of one upload with the same fresh key, the first
\* one valid, the first is inserted once (one Transaction, one balance write)
\* and the second is skipped with the reason 'IdempotencyKey already exists
\* in database', the first row's Transaction being persisted by then.
C16_DuplicateInBatchSkipped ==
    \A p \in Procs : \A i, j \in 1..MaxRows + 1 :
        DuplicatePair(p, i, j) =>
            /\ InsertedOnce(p, i)
            /\ InSeq(Entry(j, "IdempotencyKey already exists in database"), res[p].report.skipped)
            /\ ~InSeq(Entry(j, "Duplicate idempotencyKey in current batch"), res[p].report.skipped)

C16_Witness ==
    \E p \in Procs :
        /\ DuplicatePair(p, 1, 2)
        /\ Latest(p)
        /\ res[p].report.inserted = 1
        /\ Len(res[p].report.skipped) = 1
        /\ Account # pre[p].Account

\* C17: a store call that rejects while an upload is processed never aborts
\* the upload: whichever of the key lookup, the account lookup and the two
\* saves rejected, the request is answered with the 201 report and a row is
\* recorded as failed.
C17_StoreErrorNeverAborts ==
    \A p \in Procs :
        (/\ Answered(p, "bulk")
         /\ threw[p] \in {"bulk:findOne", "bulk:accFindOne", "bulk:save", "bulk:accSave"}) =>
            /\ res[p].status = 201
            /\ res[p].report.failed # << >>

\* q is an upload all of whose rows were inserted, and p, arriving after q
\* was answered, uploads the same rows again
Reupload(p, q) ==
    /\ p # q
    /\ Answered(q, "bulk") /\ Answered(p, "bulk")
    /\ req[p].rows = req[q].rows
    /\ pre[p].seq > pre[q].seq
    /\ res[q].status = 201
    /\ res[q].report = Report(Len(req[q].rows), << >>, << >>)

\* C18: uploading again a batch all of whose rows were inserted by an earlier
\* upload is a no-op: every row is skipped with the reason 'IdempotencyKey
\* already exists in database', inserted = 0, failed = 0, and no Transaction
\* is persisted and no balance changes.
C18_ReuploadIsNoOp ==
    \A p, q \in Procs :
        Reupload(p, q) =>
            /\ res[p].status = 201
            /\ res[p].report =
                  Report(0, [i \in 1..Len(req[p].rows) |->
                                Entry(i, "IdempotencyKey already exists in database")], << >>)
            /\ Latest(p) => StoreUntouched(p)

C18_Witness ==
    \E p, q \in Procs :
        /\ Reupload(p, q)
        /\ Latest(p)
        /\ Len(req[p].rows) = MaxRows
        /\ Len(res[p].report.skipped) = MaxRows
        /\ Len(Transaction) = MaxRows

\* C19: served one after the other, a GET /account/get answered 200 returns
\* the account's current balance, not a cached snapshot from before a
\* balance change: any /transaction/new, inserted bulk row or
\* /transaction/reverse before it has invalidated the entry it reads.
C19_NoStaleAccountRead ==
    \A p \in Procs :
        (Answered(p, "aget") /\ Latest(p) /\ res[p].status = 200) =>
            res[p].account.money = Account[ToNumber(req[p].query)]

\* p is the last request, a read of a record that exists in the store
ReadsStored(p) ==
    /\ Latest(p)
    /\ \/ /\ Answered(p, "aget")
          /\ req[p].query # NoQuery
          /\ ToNumber(req[p].query) \in DOMAIN Account
       \/ /\ Answered(p, "tget")
          /\ req[p].transactionId \in 1..Len(Transaction)

\* C20: a cache miss or a rejecting cache call never fails a read: a
\* GET /transaction/get or GET /account/get of a record that exists in the
\* store is answered 200, and when it is not answered from the cache it
\* returns the stored record.
C20_CacheFailureNeverFailsRead ==
    \A p \in Procs :
        ReadsStored(p) =>
            /\ res[p].status = 200
            /\ (Answered(p, "aget") /\ ~res[p].cached) =>
                  res[p].account = AccountFindOne(Account, ToNumber(req[p].query))
            /\ (Answered(p, "tget") /\ ~res[p].cached) =>
                  res[p].transaction = Transaction[req[p].transactionId]

\* the Transactions of store that belong to account a
OfAccount(store, a) == SelectSeq(store, LAMBDA t : t.accountNumber = a)

\* no later request on p's account has arrived
LastOnAccount(p) ==
    \A q \in Procs :
        (q # p /\ req[q].route = "new" /\ req[q].body.accountNumber = req[p].body.accountNumber)
            => pre[q].seq < pre[p].seq

\* the answer and the balance a /transaction/new request p has when only the
\* requests of its own account are run: decided by the Transactions and the
\* balance of that account as p found them
AsIfAlone(p) ==
    LET b == req[p].body
        a == b.accountNumber
        money == pre[p].Account[a]
        status == IF ~KeyFresh(OfAccount(pre[p].Transaction, a), b.idempotencyKey) THEN 409
                  ELSE IF b.type = "debit" /\ money < b.amount THEN 400
                  ELSE 201
    IN /\ res[p].status = status
       /\ status = 201 =>
             /\ res[p].transaction.idempotencyKey = b.idempotencyKey
             /\ KeyCount(OfAccount(Transaction, a), b.idempotencyKey) = 1
       /\ LastOnAccount(p) =>
             Account[a] = IF status # 201 THEN money
                          ELSE IF b.type = "debit" THEN money - b.amount
                          ELSE money + b.amount

\* no Transaction of another account carries the key of request p
KeyOfOwnAccount(p) ==
    \A i \in 1..Len(Transaction) :
        Transaction[i].idempotencyKey = req[p].body.idempotencyKey
            => Transaction[i].accountNumber = req[p].body.accountNumber

\* an account no request was addressed to keeps its opening balance
Unaddressed(a) ==
    (\A q \in Procs : req[q].route = "new" => req[q].body.accountNumber # a)
        => Account[a] = opening[a]

C22_ReversalKeyNeverCollides ==
    \A p \in Procs :
        (Answered(p, "reverse") /\ Latest(p) /\ newTransaction[p] # NoTx) =>
            /\ threw[p] # "rev:save"
            /\ KeyFresh(pre[p].Transaction, newTransaction[p].idempotencyKey)

\* C23: an accepted /transaction/reverse persists exactly one new Transaction,
\* of the inverse type and of the amount and accountNumber of the original,
\* and moves only that account's balance, by the amount in the inverse
\* direction; every other account is unchanged.
C23_ReversalInverts ==
    \A p \in Procs :
        (Accepted(p, "reverse") /\ Latest(p)) =>
            LET original == pre[p].Transaction[req[p].transactionId]
                reversal == Transaction[Len(Transaction)]
            IN /\ Len(Transaction) = Len(pre[p].Transaction) + 1
               /\ \A i \in 1..Len(pre[p].Transaction) : Transaction[i] = pre[p].Transaction[i]
               /\ res[p].transaction = reversal
               /\ original.type = "credit" => reversal.type = "debit"
               /\ original.type = "debit" => reversal.type = "credit"
               /\ reversal.amount = original.amount
               /\ reversal.accountNumber = original.accountNumber
               /\ reversal.idempotencyKey # original.idempotencyKey
               /\ \A a \in DOMAIN Account :
                     Account[a] = pre[p].Account[a]
                        + (IF a # original.accountNumber THEN 0
                           ELSE IF original.type = "credit" THEN 0 - original.amount
                           ELSE original.amount)

\* the accepted reversal of a debit
C23_Witness ==
    \E p \in Procs :
        /\ Accepted(p, "reverse") /\ Latest(p)
        /\ pre[p].Transaction[req[p].transactionId].type = "debit"
        /\ res[p].transaction.type = "credit"
        /\ Account[res[p].transaction.accountNumber]
              = pre[p].Account[res[p].transaction.accountNumber] + res[p].transaction.amount

\* C24: over /transaction/new requests and /transaction/new-bulk rows in any
\* interleaving, a key has at most one Transaction and at most one balance
\* write; a /transaction/new request whose key is persisted when it arrives is
\* answered 409, and a complete bulk row whose key is persisted when the
\* upload arrives is skipped as already existing.
C24_ExactlyOncePerKey ==
    /\ \A k \in ClientKeys : AppliedCount(k) <= 1 /\ KeyCount(Transaction, k) <= 1
    /\ \A p \in Procs :
          (Answered(p, "new") /\ ~KeyFresh(pre[p].Transaction, req[p].body.idempotencyKey))
              => res[p].status = 409
    /\ \A p \in Procs : \A i \in 1..MaxRows + 1 :
          (/\ Answered(p, "bulk") /\ i \in 1..Len(req[p].rows)
           /\ ~MissingFields(req[p].rows[i])
           /\ ~KeyFresh(pre[p].Transaction, req[p].rows[i].idempotencyKey))
              => InSeq(Entry(i, "IdempotencyKey already exists in database"),
                       res[p].report.skipped)

\* the key a batch inserted is refused to a later /transaction/new
C24_Witness ==
    \E p, q \in Procs :
        /\ Answered(p, "new") /\ res[p].status = 409
        /\ Answered(q, "bulk") /\ res[q].report.inserted >= 1
        /\ pre[q].Transaction = << >>
        /\ pre[p].seq > pre[q].seq
        /\ AppliedCount(req[p].body.idempotencyKey) = 1

\* C25: between requests served one after the other by /transaction/new,
\* /transaction/new-bulk and /transaction/reverse, with no rejecting call,
\* every account's balance is its opening balance plus its persisted credits
\* minus its persisted debits.
C25_LedgerConsistent ==
    NoneInFlight =>
        \A a \in DOMAIN Account : Account[a] = opening[a] + LedgerSum(Transaction, a)

\* a batch insert, then the reversal of one of its rows
C25_Witness ==
    \E p, q \in Procs :
        /\ Accepted(p, "reverse") /\ Latest(p)
        /\ Answered(q, "bulk") /\ res[q].report.inserted = MaxRows
        /\ Len(Transaction) = MaxRows + 1
        /\ LedgerSum(Transaction, ConcAccount) # 0

\* the fields of a Transaction that the client fixes
Fields(t) ==
    [idempotencyKey |-> t.idempotencyKey, amount |-> t.amount,
     accountNumber |-> t.accountNumber, type |-> t.type]

\* the store after the first n rows were sent one by one, in order, to
\* POST /transaction/new: a row whose key is persisted is answered 409, one
\* whose account is missing 404, a debit above the balance 400, and any other
\* row 201, persisting a Transaction and moving the balance
RECURSIVE OneByOne(_, _, _)
OneByOne(rows, n, start) ==
    IF n = 0 THEN start
    ELSE LET s == OneByOne(rows, n - 1, start)
             r == rows[n]
         IN IF \E i \in 1..Len(s.ledger) : s.ledger[i].idempotencyKey = r.idempotencyKey
            THEN s
            ELSE IF r.account \notin DOMAIN s.accounts THEN s
            ELSE IF r.type = "debit" /\ s.accounts[r.account] < r.amount THEN s
            ELSE [ledger |-> Append(s.ledger,
                                [idempotencyKey |-> r.idempotencyKey, amount |-> r.amount,
                                 accountNumber |-> r.account, type |-> r.type]),
                  accounts |-> [s.accounts EXCEPT ![r.account] =
                                  IF r.type = "debit" THEN @ - r.amount ELSE @ + r.amount],
                  created |-> s.created + 1]

\* C26: an upload whose rows all have their four columns leaves the persisted
\* Transactions and the balances as the same rows sent one by one, in input
\* order, to /transaction/new leave them, and reports as inserted the number
\* of rows that would be answered 201.
C26_BulkAgreesWithSingle ==
    \A p \in Procs :
        (/\ Answered(p, "bulk") /\ Latest(p) /\ res[p].status = 201
         /\ \A i \in 1..Len(req[p].rows) : ~MissingFields(req[p].rows[i])) =>
            LET single == OneByOne(req[p].rows, Len(req[p].rows),
                                   [ledger |-> [i \in 1..Len(pre[p].Transaction) |->
                                                   Fields(pre[p].Transaction[i])],
                                    accounts |-> pre[p].Account,
                                    created |-> 0])
            IN /\ [i \in 1..Len(Transaction) |-> Fields(Transaction[i])] = single.ledger
               /\ Account = single.accounts
               /\ res[p].report.inserted = single.created

\* C27: when an upload is answered, every row it reports as skipped has a
\* Transaction with its idempotencyKey persisted; no row is skipped for an
\* earlier row with the same key that failed and persisted nothing.
C27_SkippedMeansPersisted ==
    \A p \in Procs :
        (Answered(p, "bulk") /\ Latest(p) /\ res[p].status = 201) =>
            \A n \in 1..Len(res[p].report.skipped) :
                KeyCount(Transaction,
                         req[p].rows[res[p].report.skipped[n].row].idempotencyKey) >= 1

\* C28: a row an upload reports as failed, its key fresh when the upload
\* arrived and carried by no other row, has left no Transaction under its key
\* and no balance write, so that uploading it again can still apply it.
C28_FailedRowLeftNothing ==
    \A p \in Procs :
        (Answered(p, "bulk") /\ Latest(p) /\ res[p].status = 201) =>
            \A n \in 1..Len(res[p].report.failed) :
                LET i == res[p].report.failed[n].row
                    key == req[p].rows[i].idempotencyKey
                IN (/\ KeyFresh(pre[p].Transaction, key)
                    /\ \A j \in 1..Len(req[p].rows) :
                          j # i => req[p].rows[j].idempotencyKey # key)
                       => /\ KeyCount(Transaction, key) = 0
                          /\ AppliedCount(key) = 0

\* p is an answered upload of two complete rows with fresh distinct keys on
\* one existing account: row c a credit, row d a debit that the balance the
\* upload arrives at does not cover but the balance after the credit does
CreditAndDebit(p, c, d) ==
    LET rows == req[p].rows
    IN /\ Answered(p, "bulk")
       /\ Len(rows) = 2 /\ {c, d} = {1, 2}
       /\ FreshDistinctRows(rows, pre[p].Transaction)
       /\ rows[c].type = "credit" /\ rows[d].type = "debit"
       /\ rows[c].account = rows[d].account
       /\ rows[c].account \in DOMAIN pre[p].Account
       /\ pre[p].Account[rows[d].account] < rows[d].amount
       /\ rows[d].amount <= pre[p].Account[rows[d].account] + rows[c].amount

\* C29: the rows of an upload are processed in input order and the funds
\* check of a row sees the balance left by the rows inserted before it: the
\* credit followed by the debit that needs it inserts both, in that order;
\* the debit followed by the credit fails the debit with 'Insufficient funds'
\* and inserts the credit.
C29_RowsInInputOrder ==
    \A p \in Procs :
        /\ CreditAndDebit(p, 1, 2) =>
              LET rows == req[p].rows
                  a == rows[1].account
              IN /\ res[p].report = Report(2, << >>, << >>)
                 /\ Latest(p) =>
                       /\ Len(Transaction) = Len(pre[p].Transaction) + 2
                       /\ Transaction[Len(Transaction) - 1].idempotencyKey = rows[1].idempotencyKey
                       /\ Transaction[Len(Transaction)].idempotencyKey = rows[2].idempotencyKey
                       /\ Account[a] = pre[p].Account[a] + rows[1].amount - rows[2].amount
        /\ CreditAndDebit(p, 2, 1) =>
              LET rows == req[p].rows
                  a == rows[1].account
              IN /\ res[p].report = Report(1, << >>, << Entry(1, "Insufficient funds") >>)
                 /\ Latest(p) =>
                       /\ Len(Transaction) = Len(pre[p].Transaction) + 1
                       /\ Transaction[Len(Transaction)].idempotencyKey = rows[2].idempotencyKey
                       /\ Account[a] = pre[p].Account[a] + rows[2].amount

\* the credit followed by the debit it covers, both inserted
C29_Witness ==
    \E p \in Procs :
        /\ CreditAndDebit(p, 1, 2)
        /\ Latest(p)
        /\ res[p].report.inserted = 2
        /\ Account = pre[p].Account
        /\ Len(Transaction) = 2

\* q is an accepted reversal and p, the next request, reverses the same
\* Transaction and derives its key at another clock reading
ReversedAgain(p, q) ==
    /\ p # q
    /\ Accepted(q, "reverse")
    /\ Answered(p, "reverse")
    /\ req[p].transactionId = req[q].transactionId
    /\ pre[p].seq = pre[q].seq + 1
    /\ newTransaction[p] # NoTx
    /\ newTransaction[p].idempotencyKey # res[q].transaction.idempotencyKey

\* C30: a second /transaction/reverse of the same transactionId, made at
\* another clock reading, is accepted like the first: each of the two persists
\* its own reversal Transaction and each moves the balance, which ends twice
\* the original amount away, in the inverse direction, from where it was.
C30_DoubleReversalApplies ==
    \A p, q \in Procs :
        (ReversedAgain(p, q) /\ Latest(p)) =>
            LET original == pre[q].Transaction[req[q].transactionId]
                a == original.accountNumber
            IN /\ res[p].status = 201
               /\ Transaction = pre[q].Transaction \o << res[q].transaction, res[p].transaction >>
               /\ res[p].transaction.type = res[q].transaction.type
               /\ res[p].transaction.type # original.type
               /\ res[p].transaction.amount = original.amount
               /\ Account[a] = pre[q].Account[a]
                     + (IF original.type = "credit" THEN 0 - 2 * original.amount
                        ELSE 2 * original.amount)

C30_Witness ==
    \E p, q \in Procs :
        /\ ReversedAgain(p, q) /\ Latest(p)
        /\ Accepted(p, "reverse")
        /\ pre[q].Transaction[req[q].transactionId].type = "credit"
        /\ Account[res[p].transaction.accountNumber] < 0

\* C31: served alone, a /transaction/new answered 201 persists exactly one
\* Transaction, carrying the request's idempotencyKey, amount, type and
\* accountNumber, and sets the named account's balance to old + amount for a
\* credit and old - amount for a debit; every other balance and every
\* Transaction persisted before is unchanged.
C31_AcceptedNewEffect ==
    \A p \in Procs :
        (Accepted(p, "new") /\ Latest(p)) =>
            LET b == req[p].body
                t == Transaction[Len(Transaction)]
            IN /\ Len(Transaction) = Len(pre[p].Transaction) + 1
               /\ \A i \in 1..Len(pre[p].Transaction) : Transaction[i] = pre[p].Transaction[i]
               /\ t.idempotencyKey = b.idempotencyKey /\ t.amount = b.amount
               /\ t.type = b.type /\ t.accountNumber = b.accountNumber
               /\ res[p].transaction = t
               /\ \A a \in DOMAIN Account :
                     Account[a] = pre[p].Account[a]
                        + (IF a # b.accountNumber THEN 0
                           ELSE IF b.type = "credit" THEN b.amount ELSE 0 - b.amount)

\* an accepted debit on account 2 after another Transaction was persisted
C31_Witness ==
    \E p \in Procs :
        /\ Accepted(p, "new") /\ Latest(p)
        /\ req[p].body.type = "debit"
        /\ req[p].body.accountNumber # ConcAccount
        /\ pre[p].Transaction # << >>
        /\ Account[req[p].body.accountNumber] = 0

\* the rows of the answered upload p that were inserted
InsertedRows(p) ==
    (1..Len(req[p].rows))
        \ (EntryRows(res[p].report.skipped) \cup EntryRows(res[p].report.failed))

\* the balance of account a as row n of the upload p finds it: the balance at
\* the upload's arrival and the inserted rows before row n
RECURSIVE BalanceAt(_, _, _)
BalanceAt(p, a, n) ==
    IF n <= 1 THEN pre[p].Account[a]
    ELSE BalanceAt(p, a, n - 1)
         + (IF (n - 1) \notin InsertedRows(p) \/ req[p].rows[n - 1].account # a THEN 0
            ELSE IF req[p].rows[n - 1].type = "credit" THEN req[p].rows[n - 1].amount
            ELSE 0 - req[p].rows[n - 1].amount)

\* row i of the answered upload p is a debit that reached the funds check
DebitRowChecked(p, i) ==
    LET rows == req[p].rows
    IN /\ Answered(p, "bulk") /\ res[p].status = 201
       /\ i \in 1..Len(rows)
       /\ ~MissingFields(rows[i])
       /\ rows[i].type = "debit"
       /\ rows[i].account \in DOMAIN pre[p].Account
       /\ i \notin EntryRows(res[p].report.skipped)

\* p is an answered /new debit that reached the funds check
DebitChecked(p) ==
    /\ Answered(p, "new")
    /\ req[p].body.idempotencyKey # NoKey
    /\ req[p].body.type = "debit"
    /\ KeyFresh(pre[p].Transaction, req[p].body.idempotencyKey)
    /\ req[p].body.accountNumber \in DOMAIN pre[p].Account

\* C32: on /transaction/new and on every row of /transaction/new-bulk a debit
\* that reaches the funds check is accepted exactly when the account's balance
\* is at least the amount, and is refused with 'Insufficient funds' otherwise;
\* a debit of the whole balance is accepted and leaves the balance 0.
C32_DebitAcceptedIffCovered ==
    \A p \in Procs :
        /\ DebitChecked(p) =>
              LET b == req[p].body
                  money == pre[p].Account[b.accountNumber]
              IN /\ (res[p].status = 201) <=> (money >= b.amount)
                 /\ money < b.amount =>
                       res[p] = Response(400, "Insufficient funds", NoTx)
                 /\ (money = b.amount /\ Latest(p)) => Account[b.accountNumber] = 0
        /\ \A i \in 1..MaxRows :
              DebitRowChecked(p, i) =>
                  LET row == req[p].rows[i]
                      money == BalanceAt(p, row.account, i)
                  IN /\ (i \in InsertedRows(p)) <=> (money >= row.amount)
                     /\ money < row.amount =>
                           InSeq(Entry(i, "Insufficient funds"), res[p].report.failed)
                     /\ (money = row.amount /\ i = Len(req[p].rows) /\ Latest(p)) =>
                           Account[row.account] = 0

\* a /new debit of the whole balance was accepted and left 0, and then the
\* first row of an upload, a debit on the empty account, was refused
C32_Witness ==
    \E p, q \in Procs :
        /\ DebitChecked(p) /\ res[p].status = 201
        /\ pre[p].Account[req[p].body.accountNumber] = req[p].body.amount
        /\ DebitRowChecked(q, 1) /\ Latest(q)
        /\ BalanceAt(q, ConcAccount, 1) = 0
        /\ InSeq(Entry(1, "Insufficient funds"), res[q].report.failed)

\* the second row of an upload, a debit of the whole balance left by the
\* first row, was inserted and left 0
C32_WitnessBulk ==
    \E q \in Procs :
        /\ DebitRowChecked(q, 2) /\ Latest(q) /\ Len(req[q].rows) = 2
        /\ InsertedRows(q) = {1, 2}
        /\ BalanceAt(q, ConcAccount, 2) = req[q].rows[2].amount
        /\ Account[ConcAccount] = 0

\* C33: /transaction/new checks, in this order, that the idempotencyKey is
\* present, that it is not persisted, that the account exists and that the
\* funds suffice: a request with a persisted key is answered 409 whatever its
\* account and amount, and a request with a fresh key for a missing account
\* is answered 404 whatever its amount and type.
C33_CheckOrder ==
    \A p \in Procs :
        Answered(p, "new") =>
            LET b == req[p].body
            IN IF b.idempotencyKey = NoKey
               THEN res[p] = Response(400, "idempotencyKey is required", NoTx)
               ELSE IF ~KeyFresh(pre[p].Transaction, b.idempotencyKey)
               THEN \E i \in 1..Len(pre[p].Transaction) :
                       /\ pre[p].Transaction[i].idempotencyKey = b.idempotencyKey
                       /\ res[p] = Duplicate(pre[p].Transaction[i])
               ELSE IF b.accountNumber \notin DOMAIN pre[p].Account
               THEN res[p] = Response(404, "Account not found", NoTx)
               ELSE IF b.type = "debit" /\ pre[p].Account[b.accountNumber] < b.amount
               THEN res[p] = Response(400, "Insufficient funds", NoTx)
               ELSE res[p].status = 201

\* a request that repeats a persisted key, names a missing account and was
\* answered 409, and before it one with a fresh key for the missing account
\* that was answered 404
C33_Witness ==
    \E p, q \in Procs :
        /\ Answered(p, "new") /\ Latest(p)
        /\ req[p].body.accountNumber = MissingAccount
        /\ res[p].status = 409
        /\ Answered(q, "new")
        /\ req[q].body.accountNumber = MissingAccount
        /\ res[q].status = 404

\* no reversal has been persisted: every Transaction carries a client's key
NoReversalPersisted == \A i \in 1..Len(Transaction) : Len(Transaction[i].idempotencyKey) = 1

\* C34: from non-negative opening balances, while only /transaction/new
\* requests and /transaction/new-bulk uploads with positive amounts have been
\* applied, one after the other and without store errors, no balance is
\* negative.
C34_BalancesNonNegative ==
    NoReversalPersisted => \A a \in DOMAIN Account : Account[a] >= 0

\* a /new request and an upload were both answered, a debit is persisted and
\* has emptied the account
C34_Witness ==
    /\ NoReversalPersisted
    /\ \E p, q \in Procs : Accepted(p, "new") /\ Answered(q, "bulk") /\ res[q].report.inserted >= 1
    /\ \E i \in 1..Len(Transaction) : Transaction[i].type = "debit"
    /\ Account[ConcAccount] = 0
    /\ opening[ConcAccount] > 0

\* C38: every cache entry transaction:<id> is the snapshot of the Transaction
\* stored under that id; /transaction/get writes the cache only with a record
\* it found in the store, and a 404 leaves the cache as it was.
C38_TransactionCacheCoherent ==
    /\ \A id \in DOMAIN redis.transaction :
          /\ id \in 1..Len(Transaction)
          /\ redis.transaction[id] = Transaction[id]
    /\ \A p \in Procs :
          (Answered(p, "tget") /\ Latest(p)) =>
              /\ res[p].status = 404 => redis = pre[p].redis
              /\ redis.account = pre[p].redis.account
              /\ \A id \in DOMAIN redis.transaction \ DOMAIN pre[p].redis.transaction :
                    id = req[p].transactionId /\ res[p].status = 200

\* a Transaction is cached, and the latest read, of an id that is not stored,
\* was answered 404
C38_Witness ==
    \E p \in Procs :
        /\ Answered(p, "tget") /\ Latest(p)
        /\ res[p].status = 404
        /\ req[p].transactionId # 0
        /\ redis.transaction # NoCache.transaction

\* C35: once a GET /account/get and a concurrent balance-changing request on
\* the same account have both completed, a cache entry account:<accountNumber>
\* holds the balance the store holds.
C35_NoStaleEntryAfterRace ==
    NoneInFlight =>
        \A a \in DOMAIN Account :
            Format(a) \in DOMAIN redis.account =>
                redis.account[Format(a)].money = Account[a]

\* C36: once an account is deleted, by DELETE /account/delete or by the
\* cascade of POST /investor/delete, no cache entry account:<accountNumber>
\* of it remains, and a later GET /account/get of it is answered 404.
C36_DeletedAccountNotCached ==
    /\ NoneInFlight => \A k \in DOMAIN redis.account : ToNumber(k) \in DOMAIN Account
    /\ \A p \in Procs :
          (/\ Answered(p, "aget") /\ Latest(p)
           /\ req[p].query # NoQuery
           /\ ToNumber(req[p].query) \notin DOMAIN Account) => res[p].status = 404

\* C37: the money of an existing account changes only in the balance step of
\* /transaction/new, /transaction/new-bulk or /transaction/reverse, whose
\* Transaction is persisted; no other step, in particular none of
\* PUT /account/update, changes it.
C37_MoneyChangedOnlyByEngine ==
    [][\A a \in DOMAIN Account \cap DOMAIN Account' :
          Account'[a] # Account[a] =>
              \E p \in Procs :
                  /\ pc[p] \in {"new:accSave", "bulk:accSave", "rev:inc"}
                  /\ pc'[p] # pc[p]
                  /\ \E i \in 1..Len(Transaction) :
                        /\ Transaction[i].idempotencyKey = newTransaction[p].idempotencyKey
                        /\ Transaction[i].accountNumber = a]_vars

\* the handler in slot p takes a step, or a request arrives at the slot
Stepped(p) == pc'[p] # pc[p] \/ bulk'[p] # bulk[p] \/ pre'[p] # pre[p]

\* C39: every /transaction/new-bulk upload that carries a file is eventually
\* answered, with the 201 report, 400 or 500; the loop reaches the first
\* await of a row only with a larger row index than before, so no row is
\* visited twice, and once the response is sent it is never replaced.
C39_BulkAnswersOnce ==
    /\ \A p \in Procs :
          (req[p].route = "bulk") ~> (pc[p] = "done" /\ res[p].status \in {201, 400, 500})
    /\ [][\A p \in Procs :
             /\ (Stepped(p) /\ pc'[p] = "bulk:findOne") => bulk'[p].i > bulk[p].i
             /\ (pc[p] = "done" /\ pre'[p] = pre[p]) => (pc'[p] = "done" /\ res'[p] = res[p])]_vars

\* an upload of MaxRows rows was answered with the 201 report after one of
\* its calls rejected, and the other upload was answered 500
C39_Witness ==
    \E p, q \in Procs :
        /\ Answered(p, "bulk") /\ res[p].status = 201
        /\ Len(req[p].rows) = MaxRows
        /\ res[p].report.inserted + Len(res[p].report.skipped) + Len(res[p].report.failed) = MaxRows
        /\ threw[p] # "none"
        /\ Answered(q, "bulk") /\ res[q].status = 500
====
